---- MODULE Spec2Model ----
(***************************************************************************)
(* State-machine model of the ISIS EPS client library: the configuration   *)
(* parameter registry (ConfigParamWrite / ConfigParamRead), the            *)
(* configuration checksum (CRC-16), the checksum-validated save protocol   *)
(* of EpsConfig, the single-transaction operations with their status and   *)
(* payload decoding, and the output-channel states (BusChannelState).      *)
(***************************************************************************)
EXTENDS Integers, Sequences, FiniteSets, TLC

VARIABLES
    reg,      \* registry harness: one chain of get_id / from_id / get_len calls
    crcv,     \* checksum harness: the byte loop of calculate_checksum
    op,       \* the EpsConfig operation that is running or ran last
    pc,       \* position of the caller inside that operation
    dev,      \* the device's stored configuration values, by address
    it,       \* position of the iterator of get_config_data in iter_id()
    result,   \* the Vec<u8> that get_config_data accumulates
    bus,      \* transactions issued by the running (or last) call, in order
    ret,      \* what the last finished call returned
    lastStat, \* outcome of the last failed transfer, or of the last transfer of
              \* the call (a status byte; -1: the transport failed)
    ncalls,   \* save_config calls started so far
    nsets,    \* set_config_para_u16 calls made so far
    prev,     \* get addresses and checksum bytes of the previous successful save
    cur,      \* the same for the latest successful save, and whether a set came between
    call,     \* single-transaction harness: the last EPS / EpsConfig call, its
              \* request, the response it got and what it returned
    chs       \* channel-state harness: the last BusChannelState call and its result

\* the variables of the save / set protocol
saveVars == <<op, pc, dev, it, result, bus, ret, lastStat, ncalls, nsets, prev, cur>>

\* the variables of the single-call and channel-state harnesses
apiVars == <<call, chs>>

vars == <<reg, crcv, saveVars, apiVars>>

-----------------------------------------------------------------------------
(* Integer widths and byte helpers (u8 / u16 / i16 arithmetic of the code). *)

U8_MAX == 255

U16_MAX == 65535

\* u8::to_le_bytes / u16::to_le_bytes: the n little-endian bytes of v (n <= 2)
RECURSIVE to_le_bytes(_, _)
to_le_bytes(v, n) ==
    IF n = 0 THEN <<>> ELSE <<v % 256>> \o to_le_bytes(v \div 256, n - 1)

\* u8::from_le_bytes / u16::from_le_bytes
RECURSIVE from_le_bytes(_)
from_le_bytes(b) ==
    IF Len(b) = 0 THEN 0 ELSE b[1] + 256 * from_le_bytes(Tail(b))

\* i16::from_le_bytes / i8::from_le_bytes: two's complement reading
signed_from_le_bytes(b) ==
    LET u == from_le_bytes(b)
        m == 2 ^ (8 * Len(b))
    IN  IF u >= m \div 2 THEN u - m ELSE u

\* i16::to_le_bytes / i8::to_le_bytes
signed_to_le_bytes(v, n) ==
    to_le_bytes(IF v < 0 THEN v + 2 ^ (8 * n) ELSE v, n)

\* a u32 is kept as its two 16-bit halves (TLC's integers are 32-bit signed)
\* u32::from_le_bytes([b0, b1, b2, b3])
u32_from_le_bytes(b) ==
    [lo |-> from_le_bytes(SubSeq(b, 1, 2)), hi |-> from_le_bytes(SubSeq(b, 3, 4))]

\* u32::to_le_bytes
u32_to_le_bytes(v) == to_le_bytes(v.lo, 2) \o to_le_bytes(v.hi, 2)

-----------------------------------------------------------------------------
(* Parameter registry: config.rs, ConfigParamWrite and ConfigParamRead.     *)
(* A parameter identifier is a record [tag, idx]; idx is the u8 payload of  *)
(* the indexed variants and 0 for the unit variants.                        *)

P(tag) == [tag |-> tag, idx |-> 0]

PI(tag, i) == [tag |-> tag, idx |-> i]

None == [tag |-> "None", idx |-> 0]

\* the explicit arms of ConfigParamWrite::get_id, in source order: <<variant, index, address>>
get_id_arms ==
    << <<"ChStartupEnaBf", 0, \H6002>>, <<"ChStartupKey", 0, \H6003>>, <<"ChLatchoffEnaBf", 0, \H6004>>,
       <<"ChLatchoffKey", 0, \H6005>>, <<"TtcWdgTimeout", 0, \H4000>>, <<"TtcWdgTimeoutKey", 0, \H4001>>,
       <<"ChStartupDelay", 0, \H4002>>, <<"ChStartupDelay", 1, \H4003>>, <<"ChStartupDelay", 2, \H4004>>,
       <<"ChStartupDelay", 3, \H4005>>, <<"ChStartupDelay", 4, \H4006>>, <<"ChStartupDelay", 5, \H4007>>,
       <<"ChStartupDelay", 6, \H4008>>, <<"ChStartupDelay", 7, \H4009>>, <<"ChStartupDelay", 8, \H400A>>,
       <<"ChStartupDelay", 9, \H400B>>, <<"ChStartupDelay", 10, \H400C>>, <<"ChStartupDelay", 11, \H400D>>,
       <<"ChStartupDelay", 12, \H400E>>, <<"ChStartupDelay", 13, \H400F>>, <<"ChStartupDelay", 14, \H4010>>,
       <<"ChStartupDelay", 15, \H4011>>, <<"ChStartupDelay", 16, \H4012>>, <<"ChStartupDelay", 17, \H4013>>,
       <<"ChStartupDelay", 18, \H4014>>, <<"ChStartupDelay", 19, \H4015>>, <<"ChStartupDelay", 20, \H4016>>,
       <<"ChStartupDelay", 21, \H4017>>, <<"ChStartupDelay", 22, \H4018>>, <<"ChStartupDelay", 23, \H4019>>,
       <<"ChStartupDelay", 24, \H401A>>, <<"ChStartupDelay", 25, \H401B>>, <<"ChStartupDelay", 26, \H401C>>,
       <<"ChStartupDelay", 27, \H401D>>, <<"ChStartupDelay", 28, \H401E>>, <<"ChStartupDelay", 29, \H401F>>,
       <<"ChStartupDelay", 30, \H4020>>, <<"ChStartupDelay", 31, \H4021>>, <<"ChLatchoffDelay", 0, \H4022>>,
       <<"ChLatchoffDelay", 1, \H4023>>, <<"ChLatchoffDelay", 2, \H4024>>, <<"ChLatchoffDelay", 3, \H4025>>,
       <<"ChLatchoffDelay", 4, \H4026>>, <<"ChLatchoffDelay", 5, \H4027>>, <<"ChLatchoffDelay", 6, \H4028>>,
       <<"ChLatchoffDelay", 7, \H4029>>, <<"ChLatchoffDelay", 8, \H402A>>, <<"ChLatchoffDelay", 9, \H402B>>,
       <<"ChLatchoffDelay", 10, \H402C>>, <<"ChLatchoffDelay", 11, \H402D>>, <<"ChLatchoffDelay", 12, \H402E>>,
       <<"ChLatchoffDelay", 13, \H402F>>, <<"ChLatchoffDelay", 14, \H4030>>, <<"ChLatchoffDelay", 15, \H4031>>,
       <<"ChLatchoffDelay", 16, \H4032>>, <<"ChLatchoffDelay", 17, \H4033>>, <<"ChLatchoffDelay", 18, \H4034>>,
       <<"ChLatchoffDelay", 19, \H4035>>, <<"ChLatchoffDelay", 20, \H4036>>, <<"ChLatchoffDelay", 21, \H4037>>,
       <<"ChLatchoffDelay", 22, \H4038>>, <<"ChLatchoffDelay", 23, \H4039>>, <<"ChLatchoffDelay", 24, \H403A>>,
       <<"ChLatchoffDelay", 25, \H403B>>, <<"ChLatchoffDelay", 26, \H403C>>, <<"ChLatchoffDelay", 27, \H403D>>,
       <<"ChLatchoffDelay", 28, \H403E>>, <<"ChLatchoffDelay", 29, \H403F>>, <<"ChLatchoffDelay", 30, \H4040>>,
       <<"ChLatchoffDelay", 31, \H4041>>, <<"SafetyVoltLoThr", 0, \H4042>>, <<"SafetyVoltHiThr", 0, \H4043>>,
       <<"LoThrBp1Heater", 0, \H3000>>, <<"HiThrBp1Heater", 0, \H3003>>, <<"LoThrBp1Unbal", 0, \H3006>>,
       <<"HiThrBp1Unbal", 0, \H3009>>, <<"McuTempBias", 0, \H300C>>, <<"McuTempPremul", 0, \H300D>>,
       <<"McuTempPosDiv", 0, \H300E>>, <<"Bp1Temp1Bias", 0, \H300F>>, <<"Bp1Temp2Bias", 0, \H3010>>,
       <<"Bp1Temp3Bias", 0, \H3011>>, <<"Bp1Temp1Premul", 0, \H3018>>, <<"Bp1Temp2Premul", 0, \H3019>>,
       <<"Bp1Temp3Premul", 0, \H301A>>, <<"Bp1Temp1PosDiv", 0, \H3021>>, <<"Bp1Temp2PosDiv", 0, \H3022>>,
       <<"Bp1Temp3PosDiv", 0, \H3023>>, <<"BoardId", 0, \H2000>>, <<"BoardIdKey", 0, \H2001>>,
       <<"RavgStrengthP2", 0, \H2002>>, <<"AutoHeatEnaBP1", 0, \H1001>>, <<"AutoBalEnaBP1", 0, \H1004>>,
       <<"Vd1AlwaysEna", 0, \H1007>>, <<"Vd2AlwaysEna", 0, \H1008>>, <<"Vd3AlwaysEna", 0, \H1009>>,
       <<"Vd4AlwaysEna", 0, \H100A>>, <<"Vd5AlwaysEna", 0, \H100B>>, <<"Vd6AlwaysEna", 0, \H100C>>,
       <<"Vd1AlwaysDisa", 0, \H100E>>, <<"Vd2AlwaysDisa", 0, \H100F>>, <<"Vd3AlwaysDisa", 0, \H1010>>,
       <<"Vd4AlwaysDisa", 0, \H1011>>, <<"Vd5AlwaysDisa", 0, \H1012>>, <<"Vd6AlwaysDisa", 0, \H1013>> >>

\* the exact-address arms of ConfigParamWrite::from_id that precede the range arms
from_id_arms_head ==
    << <<\H1001, "AutoHeatEnaBP1">>, <<\H1004, "AutoBalEnaBP1">>, <<\H1007, "Vd1AlwaysEna">>,
       <<\H1008, "Vd2AlwaysEna">>, <<\H1009, "Vd3AlwaysEna">>, <<\H100A, "Vd4AlwaysEna">>,
       <<\H100B, "Vd5AlwaysEna">>, <<\H100C, "Vd6AlwaysEna">>, <<\H100E, "Vd1AlwaysDisa">>,
       <<\H100F, "Vd2AlwaysDisa">>, <<\H1010, "Vd3AlwaysDisa">>, <<\H1011, "Vd4AlwaysDisa">>,
       <<\H1012, "Vd5AlwaysDisa">>, <<\H1013, "Vd6AlwaysDisa">>, <<\H2000, "BoardId">>,
       <<\H2001, "BoardIdKey">>, <<\H2002, "RavgStrengthP2">>, <<\H3000, "LoThrBp1Heater">>,
       <<\H3003, "HiThrBp1Heater">>, <<\H3006, "LoThrBp1Unbal">>, <<\H3009, "HiThrBp1Unbal">>,
       <<\H300C, "McuTempBias">>, <<\H300D, "McuTempPremul">>, <<\H300E, "McuTempPosDiv">>,
       <<\H300F, "Bp1Temp1Bias">>, <<\H3010, "Bp1Temp2Bias">>, <<\H3011, "Bp1Temp3Bias">>,
       <<\H3018, "Bp1Temp1Premul">>, <<\H3019, "Bp1Temp2Premul">>, <<\H301A, "Bp1Temp3Premul">>,
       <<\H3021, "Bp1Temp1PosDiv">>, <<\H3022, "Bp1Temp2PosDiv">>, <<\H3023, "Bp1Temp3PosDiv">>,
       <<\H4000, "TtcWdgTimeout">>, <<\H4001, "TtcWdgTimeoutKey">> >>

\* the exact-address arms of ConfigParamWrite::from_id that follow the range arms
from_id_arms_tail ==
    << <<\H4042, "SafetyVoltLoThr">>, <<\H4043, "SafetyVoltHiThr">>, <<\H6002, "ChStartupEnaBf">>,
       <<\H6003, "ChStartupKey">>, <<\H6004, "ChLatchoffEnaBf">>, <<\H6005, "ChLatchoffKey">> >>

\* the arms of ConfigParamRead::get_id
read_get_id_arms ==
    << <<"ChForceEnaUseBf", \H6809>>, <<"ChStartUpEnaUseBf", \H680A>>, <<"ChLatchoffEnaUseBf", \H680B>>,
       <<"Vd1AllocChBf", \H680C>>, <<"Vd2AllocChBf", \H680D>>, <<"Vd3AllocChBf", \H680E>>,
       <<"Vd4AllocChBf", \H680F>>, <<"Vd5AllocChBf", \H6810>>, <<"Vd6AllocChBf", \H6811>>,
       <<"SwciChCmdEnaBf", \H6813>>, <<"SwciChCmdDisaBf", \H6814>>, <<"TtcI2cSlaveAddr", \H4800>>,
       <<"ConfNvmSaveCntr", \H4801>>, <<"ConfNvmSaveChks", \H4802>>, <<"RstCause", \H4803>>,
       <<"RstCntrPwron", \H4804>>, <<"RstCntrWdg", \H4805>>, <<"RstCntrCmd", \H4806>>,
       <<"RstCntrMcu", \H4807>>, <<"RstCntrEmlopo", \H4808>>, <<"RstCntrMcuRaw", \H4809>>,
       <<"EmlopoVoltLoThr", \H480A>>, <<"EmlopoVoltHiThr", \H480B>>, <<"EmlopoPeriod", \H480C>>,
       <<"SafetyVoltLoThrUsed", \H480D>>, <<"SafetyVoltHiThrUsed", \H480E>>, <<"SafetyLinger", \H480F>>,
       <<"TtcWdgTimeoutUsed", \H4810>>, <<"TtcPevCmdElapsed", \H4811>>, <<"AdcMcuTempV25T30", \H3800>>,
       <<"AdcMcuTempV25T85", \H3801>>, <<"Stid", \H2800>>, <<"Ivid", \H2801>>,
       <<"BidUsed", \H2802>>, <<"BootResumeShort", \H2803>>, <<"ConfParamChanged", \H1800>> >>

\* the unit variants of the enum ConfigParamWrite
WriteUnitTags ==
    { "ChStartupEnaBf", "ChStartupKey", "ChLatchoffEnaBf", "ChLatchoffKey",
      "TtcWdgTimeout", "TtcWdgTimeoutKey", "SafetyVoltLoThr", "SafetyVoltHiThr",
      "LoThrBp1Heater", "HiThrBp1Heater", "LoThrBp1Unbal", "HiThrBp1Unbal",
      "McuTempBias", "McuTempPremul", "McuTempPosDiv", "Bp1Temp1Bias",
      "Bp1Temp2Bias", "Bp1Temp3Bias", "Bp1Temp1Premul", "Bp1Temp2Premul",
      "Bp1Temp3Premul", "Bp1Temp1PosDiv", "Bp1Temp2PosDiv", "Bp1Temp3PosDiv",
      "BoardId", "BoardIdKey", "RavgStrengthP2", "AutoHeatEnaBP1",
      "AutoBalEnaBP1", "Vd1AlwaysEna", "Vd2AlwaysEna", "Vd3AlwaysEna",
      "Vd4AlwaysEna", "Vd5AlwaysEna", "Vd6AlwaysEna", "Vd1AlwaysDisa",
      "Vd2AlwaysDisa", "Vd3AlwaysDisa", "Vd4AlwaysDisa", "Vd5AlwaysDisa",
      "Vd6AlwaysDisa" }

\* the variants of the enum ConfigParamRead
ReadTags ==
    { "ChForceEnaUseBf", "ChStartUpEnaUseBf", "ChLatchoffEnaUseBf", "Vd1AllocChBf",
      "Vd2AllocChBf", "Vd3AllocChBf", "Vd4AllocChBf", "Vd5AllocChBf",
      "Vd6AllocChBf", "SwciChCmdEnaBf", "SwciChCmdDisaBf", "TtcI2cSlaveAddr",
      "ConfNvmSaveCntr", "ConfNvmSaveChks", "RstCause", "RstCntrPwron",
      "RstCntrWdg", "RstCntrCmd", "RstCntrMcu", "RstCntrEmlopo",
      "RstCntrMcuRaw", "EmlopoVoltLoThr", "EmlopoVoltHiThr", "EmlopoPeriod",
      "SafetyVoltLoThrUsed", "SafetyVoltHiThrUsed", "SafetyLinger", "TtcWdgTimeoutUsed",
      "TtcPevCmdElapsed", "AdcMcuTempV25T30", "AdcMcuTempV25T85", "Stid",
      "Ivid", "BidUsed", "BootResumeShort", "ConfParamChanged" }

WriteIndexedTags == {"ChStartupDelay", "ChLatchoffDelay"}

\* every value of the enum ConfigParamWrite (the index payload is any u8)
ConfigParamWrite ==
    {P(t) : t \in WriteUnitTags}
        \cup {PI(t, i) : t \in WriteIndexedTags, i \in 0..U8_MAX}

\* the channel indices the registry declares for the indexed families
DelayIndexMax == 31

DeclaredWrite ==
    {P(t) : t \in WriteUnitTags}
        \cup {PI(t, i) : t \in WriteIndexedTags, i \in 0..DelayIndexMax}

ConfigParamRead == {P(t) : t \in ReadTags}

\* ConfigParamWrite::get_id: the first arm that matches, else the wildcard arms
get_id(p) ==
    IF \E k \in DOMAIN get_id_arms :
           get_id_arms[k][1] = p.tag /\ get_id_arms[k][2] = p.idx
    THEN LET k == CHOOSE k \in DOMAIN get_id_arms :
                      get_id_arms[k][1] = p.tag /\ get_id_arms[k][2] = p.idx
         IN  get_id_arms[k][3]
    ELSE IF p.tag = "ChStartupDelay" THEN \H4000
    ELSE \H4000

\* ConfigParamWrite::from_id: arms are tried top to bottom
from_id(id) ==
    IF \E k \in DOMAIN from_id_arms_head : from_id_arms_head[k][1] = id
    THEN LET k == CHOOSE k \in DOMAIN from_id_arms_head : from_id_arms_head[k][1] = id
         IN  P(from_id_arms_head[k][2])
    ELSE IF id \in \H4000..\H401F THEN PI("ChStartupDelay", (id % 256) - \H00)
    ELSE IF id \in \H4022..\H403F THEN PI("ChLatchoffDelay", (id % 256) - \H22)
    ELSE IF \E k \in DOMAIN from_id_arms_tail : from_id_arms_tail[k][1] = id
    THEN LET k == CHOOSE k \in DOMAIN from_id_arms_tail : from_id_arms_tail[k][1] = id
         IN  P(from_id_arms_tail[k][2])
    ELSE None

\* ConfigParamWrite::get_len
get_len(p) ==
    LET id == get_id(p)
    IN  IF id \in \H6000..\H6FFF THEN 4
        ELSE IF id \in \H3000..\H4FFF THEN 2
        ELSE IF id \in \H1000..\H2FFF THEN 1
        ELSE 0

\* ConfigParamWrite::iter_id: (0x0000..=0xFFFF).filter(from_id(id).is_some())
iter_id_set == {id \in 0..U16_MAX : from_id(id) # None}

iter_id ==
    [n \in 1..Cardinality(iter_id_set) |->
        CHOOSE id \in iter_id_set : Cardinality({b \in iter_id_set : b < id}) = n - 1]

\* ConfigParamRead::get_id
read_get_id(p) ==
    LET k == CHOOSE k \in DOMAIN read_get_id_arms : read_get_id_arms[k][1] = p.tag
    IN  read_get_id_arms[k][2]

\* a variant of read_get_len without the arm of the signed 2-byte family
read_get_len_no_signed(p) ==
    LET id == read_get_id(p)
    IN  IF id \in \H6800..\H6FFF THEN 4
        ELSE IF id \in \H4800..\H48FF THEN 2
        ELSE IF id \in \H2800..\H28FF THEN 1
        ELSE IF id \in \H1800..\H18FF THEN 1
        ELSE 0

\* ConfigParamRead::get_len
read_get_len(p) ==
    LET id == read_get_id(p)
    IN  IF id \in \H6800..\H6FFF THEN 4
        ELSE IF id \in \H4800..\H48FF THEN 2
        ELSE IF id \in \H3800..\H38FF THEN 2
        ELSE IF id \in \H2800..\H28FF THEN 1
        ELSE IF id \in \H1800..\H18FF THEN 1
        ELSE 0

-----------------------------------------------------------------------------
(* Registry harness: a caller resolves an identifier (get_id, get_len),     *)
(* identifies the address it got (from_id) and resolves the identifier it   *)
(* got back; or starts from an address yielded by iter_id().                *)

RegIdle ==
    [src |-> "none", p0 |-> None, a1 |-> -1, len |-> -1,
     p1 |-> None, a2 |-> -1, stage |-> 0]

CrcIdle == [data |-> <<>>, pos |-> 0, crc |-> 0, run |-> FALSE]

NoSave == [valid |-> FALSE, gets |-> <<>>, sum |-> <<>>, clean |-> FALSE]

CallIdle == [op |-> "none"]

ChsIdle == [op |-> "none"]

\* the addresses the device holds a value for: every address get_id names
DevAddrs == {get_id_arms[k][3] : k \in DOMAIN get_id_arms}

InitRest ==
    /\ op = "none"
    /\ pc = "idle"
    /\ it = 0
    /\ result = <<>>
    /\ bus = <<>>
    /\ ret = "none"
    /\ lastStat = 0
    /\ ncalls = 0
    /\ nsets = 0
    /\ prev = NoSave
    /\ cur = NoSave
    /\ call = CallIdle
    /\ chs = ChsIdle

InitRegistry ==
    /\ reg = RegIdle
    /\ crcv = CrcIdle
    /\ dev = [a \in DevAddrs |-> <<>>]
    /\ InitRest

\* p.get_id() and p.get_len() on a ConfigParamWrite value
RegResolveWrite(p) ==
    /\ reg.stage = 0
    /\ reg' = [RegIdle EXCEPT !.src = "write", !.p0 = p, !.a1 = get_id(p),
                              !.len = get_len(p), !.stage = 1]
    /\ UNCHANGED <<crcv, saveVars, apiVars>>

\* p.get_id() and p.get_len() on a ConfigParamRead value
RegResolveRead(p) ==
    /\ reg.stage = 0
    /\ reg' = [RegIdle EXCEPT !.src = "read", !.p0 = p, !.a1 = read_get_id(p),
                              !.len = read_get_len(p), !.stage = 1]
    /\ UNCHANGED <<crcv, saveVars, apiVars>>

\* the n-th address that ConfigParamWrite::iter_id() yields
RegIterAddr(n) ==
    /\ reg.stage = 0
    /\ reg' = [RegIdle EXCEPT !.src = "iter", !.a1 = iter_id[n], !.stage = 1]
    /\ UNCHANGED <<crcv, saveVars, apiVars>>

\* ConfigParamWrite::from_id on the address in hand
RegIdentify ==
    /\ reg.stage = 1
    /\ reg.src \in {"write", "iter"}
    /\ reg' = [reg EXCEPT !.p1 = from_id(reg.a1), !.stage = 2]
    /\ UNCHANGED <<crcv, saveVars, apiVars>>

\* get_id on the identifier that from_id returned
RegResolveAgain ==
    /\ reg.stage = 2
    /\ reg.p1 # None
    /\ reg' = [reg EXCEPT !.a2 = get_id(reg.p1), !.stage = 3]
    /\ UNCHANGED <<crcv, saveVars, apiVars>>

NextRegistry ==
    \/ \E p \in ConfigParamWrite : RegResolveWrite(p)
    \/ \E p \in ConfigParamRead : RegResolveRead(p)
    \/ \E n \in DOMAIN iter_id : RegIterAddr(n)
    \/ RegIdentify
    \/ RegResolveAgain

SpecRegistry == InitRegistry /\ [][NextRegistry]_vars

-----------------------------------------------------------------------------
(* Registry properties.                                                     *)

\* C1: for every declared writable identifier p (every unit variant, and
\* ChStartupDelay(i), ChLatchoffDelay(i) for i in 0..31), from_id(p.get_id())
\* is Some(p), and resolving it again gives the same address.
C1_IdentifyInvertsResolve ==
    (reg.src = "write" /\ reg.p0 \in DeclaredWrite) =>
        /\ (reg.stage >= 2 => reg.p1 = reg.p0)
        /\ (reg.stage = 3 => reg.a2 = reg.a1)

\* C2: for every address a yielded by iter_id(), from_id(a) is Some(id) and
\* id.get_id() = a.
C2_ResolveInvertsIdentify ==
    reg.src = "iter" =>
        /\ (reg.stage >= 2 => reg.p1 # None)
        /\ (reg.stage = 3 => reg.a2 = reg.a1)

\* C3: ChStartupDelay(i) resolves to 0x4002 + i and ChLatchoffDelay(i) to
\* 0x4022 + i for i in 0..31, and an index of 32 or more resolves to no
\* address of the registry.
C3_DelayFamilyBoundary ==
    (reg.src = "write" /\ reg.stage >= 1 /\ reg.p0.tag \in WriteIndexedTags) =>
        LET base == IF reg.p0.tag = "ChStartupDelay" THEN \H4002 ELSE \H4022
        IN  /\ (reg.p0.idx <= 31 => reg.a1 = base + reg.p0.idx)
            /\ (reg.p0.idx >= 32 => reg.a1 \notin iter_id_set \cup DevAddrs)

\* the part of C3 that the code satisfies: indices 0..31 of both families
C3_DeclaredIndicesOnly ==
    (reg.src = "write" /\ reg.stage >= 1 /\ reg.p0.tag \in WriteIndexedTags
        /\ reg.p0.idx <= 31) =>
        reg.a1 = (IF reg.p0.tag = "ChStartupDelay" THEN \H4002 ELSE \H4022) + reg.p0.idx

\* C4: no two distinct identifiers (any ConfigParamWrite value, any
\* ConfigParamRead value) resolve to the same 16-bit address.
C4_ResolveInjective ==
    (reg.src \in {"write", "read"} /\ reg.stage = 1) =>
        /\ \A q \in ConfigParamWrite :
               (reg.src = "write" /\ q = reg.p0) \/ get_id(q) # reg.a1
        /\ \A q \in ConfigParamRead :
               (reg.src = "read" /\ q = reg.p0) \/ read_get_id(q) # reg.a1

\* C4 restricted to the declared identifiers, which the code satisfies
C4_DeclaredInjective ==
    (reg.src \in {"write", "read"} /\ reg.stage = 1
        /\ (reg.src = "write" => reg.p0 \in DeclaredWrite)) =>
        /\ \A q \in DeclaredWrite :
               (reg.src = "write" /\ q = reg.p0) \/ get_id(q) # reg.a1
        /\ \A q \in ConfigParamRead :
               (reg.src = "read" /\ q = reg.p0) \/ read_get_id(q) # reg.a1

\* C5: get_len() is decided by the address range alone: 4 in 0x6000-0x6FFF,
\* 2 in 0x3000-0x4FFF, 1 in 0x1000-0x2FFF, and never 0 for a declared
\* identifier, writable or read-only.
C5_WidthByRange ==
    (reg.src \in {"write", "read"} /\ reg.stage >= 1) =>
        /\ (reg.a1 \in \H6000..\H6FFF => reg.len = 4)
        /\ (reg.a1 \in \H3000..\H4FFF => reg.len = 2)
        /\ (reg.a1 \in \H1000..\H2FFF => reg.len = 1)
        /\ reg.len # 0

\* a read-only parameter of the signed 2-byte family has been measured
C5_Witness ==
    /\ reg.src = "read"
    /\ reg.stage = 1
    /\ reg.a1 = \H3800
    /\ reg.len = 2

-----------------------------------------------------------------------------
(* Configuration checksum: EpsConfig::calculate_checksum.                   *)

\* bitwise exclusive or of two naturals (the ^ of the code)
RECURSIVE xor(_, _)
xor(a, b) ==
    IF a = 0 THEN b
    ELSE IF b = 0 THEN a
    ELSE ((a + b) % 2) + 2 * xor(a \div 2, b \div 2)

\* let mut crc: u16 = 0xFFFF
crc_init == \HFFFF

\* a variant of crc_shift that uses the CRC-16/ARC polynomial
crc_shift_arc(crc) ==
    IF crc >= \H8000 THEN xor((crc * 2) % (U16_MAX + 1), \H8005)
    ELSE (crc * 2) % (U16_MAX + 1)

\* one pass of the inner loop: shift left on u16, xor 0x1021 if the top bit was set
crc_shift(crc) ==
    IF crc >= \H8000 THEN xor((crc * 2) % (U16_MAX + 1), \H1021)
    ELSE (crc * 2) % (U16_MAX + 1)

RECURSIVE crc_shifts(_, _)
crc_shifts(crc, n) ==
    IF n = 0 THEN crc ELSE crc_shifts(crc_shift(crc), n - 1)

\* one pass of the outer loop: crc ^= u16::from(byte) << 8, then 8 shifts
crc_byte(crc, byte) == crc_shifts(xor(crc, (byte * 256) % (U16_MAX + 1)), 8)

\* calculate_checksum once get_config_data has returned Ok(config_data):
\* the register and the position of the loop over config_data
calculate_checksum_start(config_data) ==
    [data |-> config_data, pos |-> 0, crc |-> crc_init, run |-> TRUE]

\* Checksum harness: the loop of calculate_checksum run byte by byte on a
\* byte stream taken from a bounded set of inputs.
MaxCrcLen == 3

CrcBytes == {\H00, \H31, \H80, \HFF}

CheckVector == <<\H31, \H32, \H33, \H34, \H35, \H36, \H37, \H38, \H39>>

RECURSIVE SeqsUpTo(_, _)
SeqsUpTo(S, n) ==
    IF n = 0 THEN {<<>>}
    ELSE LET shorter == SeqsUpTo(S, n - 1)
         IN  shorter \cup {Append(s, b) : s \in {t \in shorter : Len(t) = n - 1}, b \in S}

CrcInputs == SeqsUpTo(CrcBytes, MaxCrcLen) \cup {CheckVector}

InitCrc ==
    /\ reg = RegIdle
    /\ crcv \in {calculate_checksum_start(d) : d \in CrcInputs}
    /\ dev = [a \in DevAddrs |-> <<>>]
    /\ InitRest

\* for byte in config_data.iter() { ... }
CrcStep ==
    /\ crcv.run
    /\ crcv.pos < Len(crcv.data)
    /\ crcv' = [crcv EXCEPT !.pos = crcv.pos + 1,
                            !.crc = crc_byte(crcv.crc, crcv.data[crcv.pos + 1])]
    /\ UNCHANGED <<reg, saveVars, apiVars>>

NextCrc == CrcStep

SpecCrc == InitCrc /\ [][NextCrc]_vars

\* Reference CRC-16/CCITT-FALSE by polynomial long division on the bits of
\* the message: the message followed by 16 zero bits, its first 16 bits
\* inverted (initial register 0xFFFF), divided by x^16 + x^12 + x^5 + 1.
RECURSIVE RefBitsOfByte(_, _)
RefBitsOfByte(b, n) ==
    IF n = 0 THEN <<>> ELSE Append(RefBitsOfByte(b \div 2, n - 1), b % 2)

RefBits(bytes) ==
    [i \in 1..(8 * Len(bytes)) |->
        RefBitsOfByte(bytes[((i - 1) \div 8) + 1], 8)[((i - 1) % 8) + 1]]

RefPoly == <<1, 0, 0, 0, 1, 0, 0, 0, 0, 0, 0, 1, 0, 0, 0, 0, 1>>

RefAugmented(bytes) ==
    LET m == RefBits(bytes) \o [i \in 1..16 |-> 0]
    IN  [i \in 1..Len(m) |-> IF i <= 16 THEN 1 - m[i] ELSE m[i]]

RECURSIVE RefDivide(_, _)
RefDivide(bits, i) ==
    IF i + 16 > Len(bits) THEN bits
    ELSE IF bits[i] = 0 THEN RefDivide(bits, i + 1)
    ELSE RefDivide([j \in 1..Len(bits) |->
                        IF j >= i /\ j <= i + 16
                        THEN (bits[j] + RefPoly[j - i + 1]) % 2
                        ELSE bits[j]], i + 1)

\* the 16-bit remainder of a bit string; a long string is reduced half by
\* half, since rem(A ++ B) = rem(rem(A) ++ B)
RECURSIVE RefRemainder(_)
RefRemainder(bits) ==
    IF Len(bits) <= 48
    THEN LET r == RefDivide(bits, 1) IN SubSeq(r, Len(r) - 15, Len(r))
    ELSE LET h == Len(bits) \div 2
         IN  RefRemainder(RefRemainder(SubSeq(bits, 1, h)) \o SubSeq(bits, h + 1, Len(bits)))

RECURSIVE RefValue(_, _)
RefValue(bits, i) ==
    IF i > Len(bits) THEN 0
    ELSE bits[i] * 2 ^ (Len(bits) - i) + RefValue(bits, i + 1)

RefCrc(bytes) == RefValue(RefRemainder(RefAugmented(bytes)), 1)

\* C8: calculate_checksum is CRC-16/CCITT-FALSE (register 0xFFFF, each byte
\* xored into the top 8 bits, 8 left shifts with xor 0x1021 when the top bit
\* was set, modulo 2^16); "123456789" gives 0x29B1.
C8_ChecksumIsCcittFalse ==
    crcv.run =>
        /\ crcv.crc \in 0..U16_MAX
        /\ crcv.crc = RefCrc(SubSeq(crcv.data, 1, crcv.pos))
        /\ (crcv.pos = Len(crcv.data) /\ crcv.data = CheckVector => crcv.crc = \H29B1)

\* the loop has consumed the whole check vector
C8_Witness ==
    /\ crcv.run
    /\ crcv.data = CheckVector
    /\ crcv.pos = Len(CheckVector)
    /\ crcv.crc = \H29B1

-----------------------------------------------------------------------------
(* Frame codec pieces used by the configuration operations (eps.rs,         *)
(* config.rs): request constants, the status decoder, the per-family        *)
(* decode of get_config_para_write.                                         *)

ALL_IVID == \H06

OVERRIDE_BID == \H00

GET_CONFIG_PARA == \H82

SET_CONFIG_PARA == \H84

RESET_CONFIG_PARA == \H86

SAVE_CONFIG == \H94

\* let config_key: u8 = 0xA7
config_key == \HA7

\* x[i] on a Vec<u8>
At(x, i) == x[i + 1]

\* a variant of match_stat that does not know the first-read flag 0x80
match_stat_no_flag(typ) ==
    CASE typ = \H00 -> "Ok"
      [] typ = \H01 -> "Rejected"
      [] typ = \H02 -> "InvalidCommandCode"
      [] typ = \H03 -> "ParameterMissing"
      [] typ = \H04 -> "Parameterinvalid"
      [] typ = \H05 -> "UnavailableMode"
      [] typ = \H06 -> "InvalidSystemType"
      [] OTHER -> "InternalProcessing"

\* match_stat: "Ok" for Ok(()), else the name of the EpsError variant
match_stat(typ) ==
    CASE typ = \H00 -> "Ok"
      [] typ = \H80 -> "Ok"
      [] typ = \H01 -> "Rejected"
      [] typ = \H02 -> "InvalidCommandCode"
      [] typ = \H03 -> "ParameterMissing"
      [] typ = \H04 -> "Parameterinvalid"
      [] typ = \H05 -> "UnavailableMode"
      [] typ = \H06 -> "InvalidSystemType"
      [] OTHER -> "InternalProcessing"

NoOutput == [ty |-> "none", v |-> 0]

\* the arm of `match param.get_id()` in get_config_para_write:
\* the Output variant it builds, the bytes it decodes and the rx_len it asks for
get_config_para_write_arm(id) ==
    IF id \in \H6000..\H60FF THEN [ty |-> "U32", n |-> 4, rx_len |-> 12]
    ELSE IF id \in \H4000..\H40FF THEN [ty |-> "U16", n |-> 2, rx_len |-> 10]
    ELSE IF id \in \H3000..\H30FF THEN [ty |-> "I16", n |-> 2, rx_len |-> 10]
    ELSE IF id \in \H2000..\H20FF THEN [ty |-> "U8", n |-> 1, rx_len |-> 9]
    ELSE IF id \in \H1000..\H10FF THEN [ty |-> "I8", n |-> 1, rx_len |-> 9]
    ELSE [ty |-> "none", n |-> 0, rx_len |-> 0]

\* get_config_para_write: the request [ALL_IVID, GET_CONFIG_PARA, OVERRIDE_BID, id[0], id[1]]
get_config_para_write_request(param) ==
    <<ALL_IVID, GET_CONFIG_PARA, OVERRIDE_BID>> \o to_le_bytes(get_id(param), 2)

\* get_config_para_write: what it returns for the transfer result tr
\* (tr.ok = FALSE: i2c.transfer returned Err; else tr.x is the response)
get_config_para_write_result(param, tr) ==
    LET arm == get_config_para_write_arm(get_id(param))
    IN  IF arm.ty = "none" THEN [err |-> "InvalidInput", out |-> NoOutput]
        ELSE IF ~tr.ok THEN [err |-> "TransferError", out |-> NoOutput]
        ELSE IF match_stat(At(tr.x, 4)) # "Ok"
        THEN [err |-> match_stat(At(tr.x, 4)), out |-> NoOutput]
        ELSE LET b == [i \in 1..arm.n |-> At(tr.x, 8 + i - 1)]
             IN  [err |-> "Ok",
                  out |-> [ty |-> arm.ty,
                           v |-> IF arm.ty \in {"I16", "I8"}
                                 THEN signed_from_le_bytes(b)
                                 ELSE IF arm.ty = "U32" THEN u32_from_le_bytes(b)
                                 ELSE from_le_bytes(b)]]

\* get_config_data: x.to_le_bytes() of the Output variant
output_bytes(out) ==
    CASE out.ty = "U32" -> u32_to_le_bytes(out.v)
      [] out.ty = "U16" -> to_le_bytes(out.v, 2)
      [] out.ty = "I16" -> signed_to_le_bytes(out.v, 2)
      [] out.ty = "U8" -> to_le_bytes(out.v, 1)
      [] out.ty = "I8" -> signed_to_le_bytes(out.v, 1)

\* a variant of get_config_data_step that skips a parameter whose read failed
get_config_data_step_skip(res, acc) ==
    IF res.err # "Ok" THEN [stop |-> FALSE, err |-> "Ok", acc |-> acc]
    ELSE [stop |-> FALSE, err |-> "Ok", acc |-> acc \o output_bytes(res.out)]

\* the body of the loop of get_config_data: return the error of a failed
\* read, else append the bytes of the value read
get_config_data_step(res, acc) ==
    IF res.err # "Ok" THEN [stop |-> TRUE, err |-> res.err, acc |-> acc]
    ELSE [stop |-> FALSE, err |-> "Ok", acc |-> acc \o output_bytes(res.out)]

\* a variant of iter_at whose order differs from one call to the next
iter_at_unstable(n) ==
    IF ncalls % 2 = 1 THEN iter_id[n] ELSE iter_id[Len(iter_id) + 1 - n]

\* a variant of iter_at that walks the addresses from the highest down
iter_at_descending(n) == iter_id[Len(iter_id) + 1 - n]

\* `for param in ConfigParamWrite::iter_id()`: the n-th address of the loop
iter_at(n) == iter_id[n]

\* a variant of save_config_request that sends the checksum high byte first
save_config_request_be(crc) ==
    <<ALL_IVID, SAVE_CONFIG, OVERRIDE_BID, config_key>>
        \o <<crc \div 256, crc % 256>>

\* save_config: [ALL_IVID, cmd_code, OVERRIDE_BID, config_key] ++ checksum.to_le_bytes()
save_config_request(crc) ==
    <<ALL_IVID, SAVE_CONFIG, OVERRIDE_BID, config_key>> \o to_le_bytes(crc, 2)

\* a variant of set_config_para_u16_request that sends the value high byte first
set_config_para_u16_request_be(param, input) ==
    <<ALL_IVID, SET_CONFIG_PARA, OVERRIDE_BID>>
        \o to_le_bytes(get_id(param), 2) \o <<input \div 256, input % 256>>

\* set_config_para_u16: [ALL_IVID, SET_CONFIG_PARA, OVERRIDE_BID, id[0], id[1]] ++ input.to_le_bytes()
set_config_para_u16_request(param, input) ==
    <<ALL_IVID, SET_CONFIG_PARA, OVERRIDE_BID>>
        \o to_le_bytes(get_id(param), 2) \o to_le_bytes(input, 2)

-----------------------------------------------------------------------------
(* The device behind i2c.transfer: it keeps the little-endian bytes of one  *)
(* value per configuration address and answers a request with reserved     *)
(* bytes, the status byte at offset 4 and the value at offset 8.           *)

\* outcomes of one transfer: -1 is a transport failure, else the status byte
StatBytes == {\H00, \H80, \H04, \H7F}

Outcomes == {-1} \cup StatBytes

Accepted(o) == o \in {\H00, \H80}

DevWidth(a) ==
    IF a \div 4096 = 6 THEN 4
    ELSE IF a \div 4096 \in {3, 4} THEN 2
    ELSE 1

\* the values the device holds after power-up
DevPowerUp ==
    [a \in DevAddrs |-> [i \in 1..DevWidth(a) |-> (a * 7 + i * 83) % 256]]

DevValue(a) == IF a \in DOMAIN dev THEN dev[a] ELSE [i \in 1..DevWidth(a) |-> 0]

ReqAddr(req) == req[4] + 256 * req[5]

DevPayload(req) ==
    IF req[2] = GET_CONFIG_PARA
    THEN DevValue(ReqAddr(req))
    ELSE IF req[2] = SET_CONFIG_PARA THEN SubSeq(req, 6, Len(req))
    ELSE IF req[2] = RESET_CONFIG_PARA /\ ReqAddr(req) \in DOMAIN DevPowerUp
    THEN DevPowerUp[ReqAddr(req)]
    ELSE <<>>

\* the response of rx_len bytes (missing bytes read as 0)
DevAnswer(req, rx_len, stat) ==
    LET full == <<0, 0, 0, 0, stat, 0, 0, 0>> \o DevPayload(req)
    IN  [i \in 1..rx_len |-> IF i <= Len(full) THEN full[i] ELSE 0]

Transfer(req, rx_len, o) ==
    IF o = -1 THEN [ok |-> FALSE, x |-> <<>>]
    ELSE [ok |-> TRUE, x |-> DevAnswer(req, rx_len, o)]

IsGet(e) == e.req[2] = GET_CONFIG_PARA

IsSave(e) == e.req[2] = SAVE_CONFIG

\* the addresses of the get requests of a log, in order
GetAddrs(log) ==
    LET gets == {i \in DOMAIN log : IsGet(log[i])}
    IN  [n \in 1..Cardinality(gets) |->
            ReqAddr(log[CHOOSE i \in gets : Cardinality({j \in gets : j < i}) = n - 1].req)]

-----------------------------------------------------------------------------
(* The save protocol: save_config -> calculate_checksum -> get_config_data, *)
(* one transfer per step, and set_config_para_u16 between calls.            *)

MaxCalls == 2

MaxSets == 1

SetParams == {P("SafetyVoltLoThr"), PI("ChStartupDelay", 0)}

SetInputs == {300}

Init ==
    /\ reg = RegIdle
    /\ crcv = CrcIdle
    /\ dev = DevPowerUp
    /\ InitRest

\* save_config() is called: calculate_checksum() calls get_config_data(),
\* which starts with an empty Vec and a fresh iterator
SaveConfigCall ==
    /\ pc = "idle"
    /\ ncalls < MaxCalls
    /\ op' = "save_config"
    /\ pc' = "reading"
    /\ it' = 1
    /\ result' = <<>>
    /\ ncalls' = ncalls + 1
    /\ prev' = IF cur.valid THEN cur ELSE prev
    /\ cur' = NoSave
    /\ UNCHANGED <<apiVars, reg, crcv, dev, bus, ret, lastStat, nsets>>

\* get_config_data() is called on its own: an empty Vec and a fresh iterator
GetConfigDataCall ==
    /\ pc = "idle"
    /\ ncalls < MaxCalls
    /\ op' = "get_config_data"
    /\ pc' = "reading"
    /\ it' = 1
    /\ result' = <<>>
    /\ ncalls' = ncalls + 1
    /\ UNCHANGED <<apiVars, reg, crcv, dev, bus, ret, lastStat, nsets, prev, cur>>

\* the iterator is exhausted in a call of get_config_data: it returns Ok(result)
GetConfigDataReturn ==
    /\ op = "get_config_data"
    /\ pc = "reading"
    /\ it > Len(iter_id)
    /\ pc' = "done"
    /\ ret' = "Ok"
    /\ UNCHANGED <<apiVars, reg, crcv, op, dev, it, result, bus, lastStat, ncalls, nsets,
                   prev, cur>>

\* one pass of the loop of get_config_data: get_config_para_write on the
\* next address; a failed read returns (through calculate_checksum and
\* save_config when save_config made the call)
SaveGet(o) ==
    /\ op \in {"save_config", "get_config_data"}
    /\ pc = "reading"
    /\ it <= Len(iter_id)
    /\ LET param == from_id(iter_at(it))
           req == get_config_para_write_request(param)
           rx_len == get_config_para_write_arm(get_id(param)).rx_len
           tr == Transfer(req, rx_len, o)
           res == get_config_para_write_result(param, tr)
           step == get_config_data_step(res, result)
       IN  /\ bus' = IF rx_len > 0
                     THEN Append(bus, [req |-> req, ok |-> Accepted(o)])
                     ELSE bus
           /\ lastStat' = IF Accepted(o) THEN lastStat ELSE o
           /\ result' = step.acc
           /\ IF step.stop
              THEN pc' = "done" /\ ret' = step.err /\ it' = it
              ELSE pc' = "reading" /\ ret' = ret /\ it' = it + 1
    /\ UNCHANGED <<apiVars, reg, crcv, op, dev, ncalls, nsets, prev, cur>>

\* the iterator is exhausted: get_config_data returns Ok(result) and
\* calculate_checksum enters its loop
SaveChecksumStart ==
    /\ op = "save_config"
    /\ pc = "reading"
    /\ it > Len(iter_id)
    /\ pc' = "checksum"
    /\ crcv' = calculate_checksum_start(result)
    /\ UNCHANGED <<apiVars, reg, op, dev, it, result, bus, ret, lastStat, ncalls, nsets, prev, cur>>

\* calculate_checksum returned Ok(crc): save_config sends the save command
SaveSend(o) ==
    /\ op = "save_config"
    /\ pc = "checksum"
    /\ crcv.pos = Len(crcv.data)
    /\ LET req == save_config_request(crcv.crc)
           tr == Transfer(req, 5, o)
       IN  /\ bus' = Append(bus, [req |-> req, ok |-> Accepted(o)])
           /\ lastStat' = o
           /\ ret' = IF ~tr.ok THEN "TransferError" ELSE match_stat(At(tr.x, 4))
           /\ cur' = [valid |-> TRUE, gets |-> GetAddrs(bus),
                      sum |-> SubSeq(req, 5, Len(req)), clean |-> TRUE]
    /\ pc' = "done"
    /\ UNCHANGED <<apiVars, reg, crcv, op, dev, it, result, ncalls, nsets, prev>>

\* set_config_para_u16(param, input) between two calls; the device stores
\* the value when it accepts the command
SetConfigParaU16(param, input, o) ==
    /\ pc = "idle"
    /\ nsets < MaxSets
    /\ LET req == set_config_para_u16_request(param, input)
           tr == Transfer(req, 10, o)
       IN  /\ bus' = <<[req |-> req, ok |-> Accepted(o)]>>
           /\ lastStat' = o
           /\ ret' = IF ~tr.ok THEN "TransferError" ELSE match_stat(At(tr.x, 4))
           /\ dev' = IF Accepted(o) /\ ReqAddr(req) \in DOMAIN dev
                     THEN [dev EXCEPT ![ReqAddr(req)] = SubSeq(req, 6, Len(req))]
                     ELSE dev
    /\ op' = "set_config_para_u16"
    /\ pc' = "done"
    /\ nsets' = nsets + 1
    /\ prev' = [prev EXCEPT !.clean = FALSE]
    /\ cur' = [cur EXCEPT !.clean = FALSE]
    /\ UNCHANGED <<apiVars, reg, crcv, it, result, ncalls>>

\* the operation has returned: its locals are dropped
Return ==
    /\ pc = "done"
    /\ pc' = "idle"
    /\ it' = 0
    /\ result' = <<>>
    /\ bus' = <<>>
    /\ ret' = "none"
    /\ lastStat' = 0
    /\ crcv' = CrcIdle
    /\ UNCHANGED <<apiVars, reg, op, dev, ncalls, nsets, prev, cur>>

Next ==
    \/ SaveConfigCall
    \/ GetConfigDataCall
    \/ GetConfigDataReturn
    \/ \E o \in Outcomes : SaveGet(o)
    \/ SaveChecksumStart
    \/ CrcStep
    \/ \E o \in Outcomes : SaveSend(o)
    \/ \E p \in SetParams, v \in SetInputs, o \in Outcomes : SetConfigParaU16(p, v, o)
    \/ Return

Spec == Init /\ [][Next]_vars

-----------------------------------------------------------------------------
(* Properties of the save protocol.                                         *)

LastEntry == bus[Len(bus)]

\* the save command went out as the last transaction of the finished call
SaveSent == op = "save_config" /\ pc = "done" /\ Len(bus) > 0 /\ IsSave(LastEntry)

\* the addresses of the declared writable parameters
DeclaredWriteAddrs == {get_id(p) : p \in DeclaredWrite}

\* C6: when every read succeeds, save_config() issues, before the save
\* command, exactly one get for the address of each declared writable
\* parameter: none is skipped and none is read twice.
C6_EveryDeclaredAddressReadOnce ==
    SaveSent =>
        \A a \in DeclaredWriteAddrs :
            Cardinality({i \in DOMAIN bus : IsGet(bus[i]) /\ ReqAddr(bus[i].req) = a}) = 1

\* what the code does instead: no address is read twice, and exactly the
\* addresses of ChStartupDelay(0), ChStartupDelay(1), ChLatchoffDelay(30) and
\* ChLatchoffDelay(31) are never read
C6_ReadsAllButFour ==
    SaveSent =>
        /\ \A a \in DeclaredWriteAddrs :
               Cardinality({i \in DOMAIN bus : IsGet(bus[i]) /\ ReqAddr(bus[i].req) = a}) <= 1
        /\ DeclaredWriteAddrs \ {ReqAddr(bus[i].req) : i \in {j \in DOMAIN bus : IsGet(bus[j])}}
               = {\H4002, \H4003, \H4040, \H4041}

\* the error the caller is to see for a failed transfer, by the outcome
CallerError(o) ==
    CASE o = -1 -> "TransferError"
      [] o = \H04 -> "Parameterinvalid"
      [] o = \H7F -> "InternalProcessing"
      [] OTHER -> "Ok"

\* C7: if a get issued by save_config() fails (status not accepted, or a
\* transport failure), save_config() returns that failure, reads no further
\* parameter and never issues the save command.
C7_ReadFailureAbortsSave ==
    op = "save_config" =>
        \A i \in DOMAIN bus :
            (IsGet(bus[i]) /\ ~bus[i].ok) =>
                /\ i = Len(bus)
                /\ pc = "done"
                /\ ret # "Ok"
                /\ ret = CallerError(lastStat)

\* the 40th read was answered with status 0x04 and the call has returned
C7_Witness ==
    /\ op = "save_config"
    /\ pc = "done"
    /\ Len(bus) = 40
    /\ IsGet(LastEntry)
    /\ ~LastEntry.ok
    /\ ret = "Parameterinvalid"

\* concatenation of ss[lo..hi]
RECURSIVE Flatten(_, _, _)
Flatten(ss, lo, hi) ==
    IF lo > hi THEN <<>>
    ELSE IF lo = hi THEN ss[lo]
    ELSE LET mid == (lo + hi) \div 2
         IN  Flatten(ss, lo, mid) \o Flatten(ss, mid + 1, hi)

\* the bytes the device holds at the addresses read, in the order read
ValuesRead ==
    LET gets == GetAddrs(bus)
    IN  Flatten([n \in 1..Len(gets) |-> DevValue(gets[n])], 1, Len(gets))

\* C9: when all reads succeed, save_config() issues exactly one save
\* transaction, after the last get, with the request bytes
\* [0x06, 0x94, 0x00, 0xA7, checksum low, checksum high], the checksum being
\* the CRC of the little-endian bytes of the values read, in the order read.
C9_SaveRequestCarriesChecksum ==
    /\ op = "save_config" =>
           \A i \in DOMAIN bus : IsSave(bus[i]) => (i = Len(bus) /\ pc = "done")
    /\ (op = "save_config" /\ pc = "done" /\ \A i \in DOMAIN bus : bus[i].ok \/ ~IsGet(bus[i])) =>
           /\ SaveSent
           /\ LET c == RefCrc(ValuesRead)
              IN  LastEntry.req = <<\H06, \H94, \H00, \HA7, c % 256, c \div 256>>

\* a save command went out after a full pass over the registry
C9_Witness ==
    /\ SaveSent
    /\ Len(bus) = Len(iter_id) + 1
    /\ ret = "Ok"

\* C10: two calls to save_config() with no configuration change between or
\* during them send byte-identical checksums and the same sequence of get
\* addresses.
C10_SaveDeterministic ==
    (cur.valid /\ prev.valid /\ prev.clean) =>
        /\ cur.sum = prev.sum
        /\ cur.gets = prev.gets

\* a second save went out with no set since the first
C10_Witness ==
    /\ SaveSent
    /\ ncalls = 2
    /\ cur.valid
    /\ prev.valid
    /\ prev.clean
    /\ Len(cur.gets) > 0

\* the checksums of two saves with an accepted set between them differ
C10_SetChangesChecksum ==
    /\ cur.valid
    /\ prev.valid
    /\ ~prev.clean
    /\ cur.sum # prev.sum

\* C11: iter_id() yields a finite, strictly ascending sequence of addresses,
\* the same on every call, and the get transactions of one save_config()
\* carry strictly ascending addresses.
C11_AscendingAddresses ==
    /\ \A n \in 1..(Len(iter_id) - 1) : iter_id[n] < iter_id[n + 1]
    /\ op = "save_config" =>
           /\ Len(bus) <= Len(iter_id) + 1
           /\ \A i \in 2..Len(bus) :
                  IsGet(bus[i]) =>
                      /\ IsGet(bus[i - 1])
                      /\ ReqAddr(bus[i - 1].req) < ReqAddr(bus[i].req)
    /\ (cur.valid /\ prev.valid) => cur.gets = prev.gets

\* a second full pass went out after a set changed a device value
C11_Witness ==
    /\ SaveSent
    /\ ncalls = 2
    /\ cur.valid
    /\ prev.valid
    /\ ~prev.clean
    /\ Len(cur.gets) = Len(iter_id)

-----------------------------------------------------------------------------
(* Single calls of the EPS and EpsConfig operations: each action is one     *)
(* whole call, from the request it builds to the value it returns, against *)
(* a response of the caller-specified length with an arbitrary status byte *)
(* and arbitrary payload bytes.                                             *)

GET_SYS_STATUS == \H40

OUTPUT_BUS_CHANNEL_ON == \H16

OUTPUT_BUS_CHANNEL_OFF == \H18

\* the responses of the transport: it fails (o = -1), or it returns the
\* number of bytes the caller asked for, with the status byte o at offset 4,
\* the byte hdr at offsets 5 and 6 and the byte pay from offset 7 on
CallStats == {\H00, \H01, \H02, \H03, \H04, \H05, \H06, \H7F, \H80}

HdrBytes == {\H00, \H01, \H05}

PayBytes == {\H00, \H04, \HFF}

Replies == [o : {-1} \cup CallStats, hdr : HdrBytes, pay : PayBytes]

Response(rx_len, r) ==
    IF r.o = -1 THEN [ok |-> FALSE, x |-> <<>>]
    ELSE [ok |-> TRUE,
          x |-> [i \in 1..rx_len |->
                    IF i <= 4 THEN 0
                    ELSE IF i = 5 THEN r.o
                    ELSE IF i <= 7 THEN r.hdr
                    ELSE r.pay]]

\* Output::<ty>(<ty>::from_le_bytes([x[8], ...])): indexing past the end of
\* the response panics
decode_output(ty, n, x) ==
    IF 8 + n > Len(x) THEN [err |-> "panic", out |-> NoOutput]
    ELSE LET b == [i \in 1..n |-> At(x, 8 + i - 1)]
         IN  [err |-> "Ok",
              out |-> [ty |-> ty,
                       v |-> IF ty \in {"I16", "I8"} THEN signed_from_le_bytes(b)
                             ELSE IF ty = "U32" THEN u32_from_le_bytes(b)
                             ELSE from_le_bytes(b)]]

\* the arm of `match param.get_id()` in get_config_para_read
get_config_para_read_arm(id) ==
    IF id \in \H6800..\H68FF THEN [ty |-> "U32", n |-> 4, rx_len |-> 12]
    ELSE IF id \in \H4800..\H48FF THEN [ty |-> "U16", n |-> 2, rx_len |-> 10]
    ELSE IF id \in \H3800..\H38FF THEN [ty |-> "I16", n |-> 2, rx_len |-> 10]
    ELSE IF id \in \H2800..\H28FF THEN [ty |-> "U8", n |-> 1, rx_len |-> 8]
    ELSE IF id \in \H1800..\H18FF THEN [ty |-> "I8", n |-> 1, rx_len |-> 8]
    ELSE [ty |-> "none", n |-> 0, rx_len |-> 0]

get_config_para_read_request(param) ==
    <<ALL_IVID, GET_CONFIG_PARA, OVERRIDE_BID>> \o to_le_bytes(read_get_id(param), 2)

\* get_config_para_read: what it returns for the transfer result tr
get_config_para_read_result(param, tr) ==
    LET arm == get_config_para_read_arm(read_get_id(param))
    IN  IF arm.ty = "none" THEN [err |-> "InvalidInput", out |-> NoOutput]
        ELSE IF ~tr.ok THEN [err |-> "TransferError", out |-> NoOutput]
        ELSE IF match_stat(At(tr.x, 4)) # "Ok"
        THEN [err |-> match_stat(At(tr.x, 4)), out |-> NoOutput]
        ELSE decode_output(arm.ty, arm.n, tr.x)

\* the arm of `match param.get_id()` in reset_param
reset_param_arm(id) ==
    IF id \in \H6000..\H60FF THEN [ty |-> "U32", n |-> 4, rx_len |-> 12]
    ELSE IF id \in \H4000..\H40FF THEN [ty |-> "U16", n |-> 2, rx_len |-> 10]
    ELSE IF id \in \H3000..\H30FF THEN [ty |-> "I16", n |-> 2, rx_len |-> 10]
    ELSE IF id \in \H2000..\H20FF THEN [ty |-> "U8", n |-> 1, rx_len |-> 8]
    ELSE IF id \in \H1000..\H10FF THEN [ty |-> "I8", n |-> 1, rx_len |-> 8]
    ELSE [ty |-> "none", n |-> 0, rx_len |-> 0]

reset_param_request(param) ==
    <<ALL_IVID, RESET_CONFIG_PARA, OVERRIDE_BID>> \o to_le_bytes(get_id(param), 2)

\* reset_param: what it returns for the transfer result tr
reset_param_result(param, tr) ==
    LET arm == reset_param_arm(get_id(param))
    IN  IF arm.ty = "none" THEN [err |-> "InvalidInput", out |-> NoOutput]
        ELSE IF ~tr.ok THEN [err |-> "TransferError", out |-> NoOutput]
        ELSE IF match_stat(At(tr.x, 4)) # "Ok"
        THEN [err |-> match_stat(At(tr.x, 4)), out |-> NoOutput]
        ELSE decode_output(arm.ty, arm.n, tr.x)

\* set_config_para_u16: what it returns for the transfer result tr
set_config_para_u16_result(tr) ==
    IF ~tr.ok THEN [err |-> "TransferError", out |-> NoOutput]
    ELSE IF match_stat(At(tr.x, 4)) # "Ok"
    THEN [err |-> match_stat(At(tr.x, 4)), out |-> NoOutput]
    ELSE decode_output("U16", 2, tr.x)

\* EpsMode::try_from(v)
EpsMode_try_from(v) ==
    CASE v = 0 -> [err |-> "Ok", v |-> "Startup"]
      [] v = 1 -> [err |-> "Ok", v |-> "Nominal"]
      [] v = 2 -> [err |-> "Ok", v |-> "Safety"]
      [] v = 3 -> [err |-> "Ok", v |-> "Contigency"]
      [] OTHER -> [err |-> "InvalidEpsMode", v |-> "none"]

\* ResetCause::try_from(v)
ResetCause_try_from(v) ==
    CASE v = 0 -> [err |-> "Ok", v |-> "PowerOn"]
      [] v = 1 -> [err |-> "Ok", v |-> "Watchdog"]
      [] v = 2 -> [err |-> "Ok", v |-> "Commanded"]
      [] v = 3 -> [err |-> "Ok", v |-> "EpsUpset"]
      [] v = 4 -> [err |-> "Ok", v |-> "EmergLowPwr"]
      [] OTHER -> [err |-> "InvalidResetCause", v |-> "none"]

\* the decoder of SystemStatus from the response bytes: mode from v[5], conf
\* from bit 0 of v[6], reset_cause from v[7], uptime from v[8..11], error
\* from v[12..13]; an unknown mode or reset cause is an error
SystemStatus_try_from(v) ==
    LET mode == EpsMode_try_from(At(v, 5))
        reset_cause == ResetCause_try_from(At(v, 7))
    IN  IF mode.err # "Ok" THEN [err |-> mode.err, out |-> NoOutput]
        ELSE IF reset_cause.err # "Ok" THEN [err |-> reset_cause.err, out |-> NoOutput]
        ELSE [err |-> "Ok",
              out |-> [ty |-> "SystemStatus",
                       v |-> [mode |-> mode.v,
                              conf |-> At(v, 6) % 2 # 0,
                              reset_cause |-> reset_cause.v,
                              uptime |-> u32_from_le_bytes([i \in 1..4 |-> At(v, 8 + i - 1)]),
                              error |-> from_le_bytes([i \in 1..2 |-> At(v, 12 + i - 1)])]]]

system_status_request == <<ALL_IVID, GET_SYS_STATUS, OVERRIDE_BID>>

\* a variant of system_status_result that decodes the payload before it
\* looks at the status byte
system_status_result_eager(tr) ==
    IF ~tr.ok THEN [err |-> "TransferError", out |-> NoOutput]
    ELSE IF SystemStatus_try_from(tr.x).err # "Ok" THEN SystemStatus_try_from(tr.x)
    ELSE IF match_stat(At(tr.x, 4)) # "Ok"
    THEN [err |-> match_stat(At(tr.x, 4)), out |-> NoOutput]
    ELSE SystemStatus_try_from(tr.x)

\* system_status: what it returns for the transfer result tr
system_status_result(tr) ==
    IF ~tr.ok THEN [err |-> "TransferError", out |-> NoOutput]
    ELSE IF match_stat(At(tr.x, 4)) # "Ok"
    THEN [err |-> match_stat(At(tr.x, 4)), out |-> NoOutput]
    ELSE SystemStatus_try_from(tr.x)

PIU_STID == \H1A

OVERRIDE_STID == \H00

\* match_st_id for the system types the calls are made with
match_st_id(typ) ==
    CASE typ = "PiuStid" -> PIU_STID
      [] typ = "OverrideStid" -> OVERRIDE_STID

StIDs == {"PiuStid", "OverrideStid"}

\* a variant of set_single_output_rejects that also refuses index 0x10
set_single_output_rejects_last(eps_ch_idx) == eps_ch_idx >= \H10

\* set_single_output: `if eps_ch_idx > 0x10 { return Err(InvalidInput) }`
set_single_output_rejects(eps_ch_idx) == eps_ch_idx > \H10

\* set_single_output: [ALL_IVID, cmd_code, OVERRIDE_BID, eps_ch_idx]
set_single_output_request(typ_channel, eps_ch_idx) ==
    <<ALL_IVID,
      IF typ_channel = "ChannelOn" THEN OUTPUT_BUS_CHANNEL_ON ELSE OUTPUT_BUS_CHANNEL_OFF,
      OVERRIDE_BID, eps_ch_idx>>

\* the operations that return (): match_stat(x[4]) of the response
unit_result(tr) ==
    IF ~tr.ok THEN [err |-> "TransferError", out |-> NoOutput]
    ELSE [err |-> match_stat(At(tr.x, 4)), out |-> NoOutput]

RESET_CONFIG_ALL == \H90

LOAD_CONFIG == \H92

\* reset_all_conf: [ALL_IVID, cmd_code, OVERRIDE_BID, config_key]
reset_all_conf_request == <<ALL_IVID, RESET_CONFIG_ALL, OVERRIDE_BID, config_key>>

\* load_config: [ALL_IVID, cmd_code, OVERRIDE_BID, config_key]
load_config_request == <<ALL_IVID, LOAD_CONFIG, OVERRIDE_BID, config_key>>

\* a variant of save_config_force_request without the checksum byte
save_config_force_request_bare == <<ALL_IVID, SAVE_CONFIG, OVERRIDE_BID, config_key>>

\* save_config_force: [ALL_IVID, cmd_code, OVERRIDE_BID, config_key, checksum]
\* with checksum = 0x00
save_config_force_request == <<ALL_IVID, SAVE_CONFIG, OVERRIDE_BID, config_key, \H00>>

\* the typed parameter enums of the set operations; From<..> for
\* ConfigParamWrite maps each value to the ConfigParamWrite value of the same
\* name (and index), so a typed value is written as that ConfigParamWrite value
ConfigParamWriteU32 ==
    {P("ChStartupEnaBf"), P("ChStartupKey"), P("ChLatchoffEnaBf"), P("ChLatchoffKey")}

ConfigParamWriteU16 ==
    {P("TtcWdgTimeout"), P("TtcWdgTimeoutKey"), P("SafetyVoltLoThr"), P("SafetyVoltHiThr")}
        \cup {PI(t, i) : t \in WriteIndexedTags, i \in 0..U8_MAX}

ConfigParamWriteI16 ==
    {P(t) : t \in {"LoThrBp1Heater", "HiThrBp1Heater", "LoThrBp1Unbal", "HiThrBp1Unbal",
                   "McuTempBias", "McuTempPremul", "McuTempPosDiv", "Bp1Temp1Bias",
                   "Bp1Temp2Bias", "Bp1Temp3Bias", "Bp1Temp1Premul", "Bp1Temp2Premul",
                   "Bp1Temp3Premul", "Bp1Temp1PosDiv", "Bp1Temp2PosDiv", "Bp1Temp3PosDiv"}}

ConfigParamWriteU8 == {P("BoardId"), P("BoardIdKey"), P("RavgStrengthP2")}

\* the values of ConfigParamWriteI8 that From<ConfigParamWriteI8> has an arm for
ConfigParamWriteI8 ==
    {P(t) : t \in {"AutoHeatEnaBP1", "AutoBalEnaBP1", "Vd1AlwaysEna", "Vd2AlwaysEna",
                   "Vd3AlwaysEna", "Vd4AlwaysEna", "Vd5AlwaysEna", "Vd6AlwaysEna",
                   "Vd1AlwaysDisa", "Vd2AlwaysDisa", "Vd3AlwaysDisa", "Vd4AlwaysDisa",
                   "Vd5AlwaysDisa", "Vd6AlwaysDisa"}}

\* a variant of set_config_para_request that sends the value high byte first
set_config_para_request_be(ty, param, input) ==
    <<ALL_IVID, SET_CONFIG_PARA, OVERRIDE_BID>>
        \o to_le_bytes(get_id(param), 2)
        \o LET b == output_bytes([ty |-> ty, v |-> input])
           IN  [i \in 1..Len(b) |-> b[Len(b) + 1 - i]]

\* set_config_para_<ty>: [ALL_IVID, SET_CONFIG_PARA, OVERRIDE_BID, id[0], id[1]]
\* ++ input.to_le_bytes()
set_config_para_request(ty, param, input) ==
    <<ALL_IVID, SET_CONFIG_PARA, OVERRIDE_BID>>
        \o to_le_bytes(get_id(param), 2)
        \o output_bytes([ty |-> ty, v |-> input])

\* rx_len and the payload width of set_config_para_<ty>
set_config_para_arm(ty) ==
    CASE ty = "U32" -> [ty |-> "U32", n |-> 4, rx_len |-> 12]
      [] ty = "U16" -> [ty |-> "U16", n |-> 2, rx_len |-> 10]
      [] ty = "I16" -> [ty |-> "I16", n |-> 2, rx_len |-> 10]
      [] ty = "U8" -> [ty |-> "U8", n |-> 1, rx_len |-> 9]
      [] ty = "I8" -> [ty |-> "I8", n |-> 1, rx_len |-> 9]

\* set_config_para_<ty>: what it returns for the transfer result tr
set_config_para_result(ty, tr) ==
    IF ~tr.ok THEN [err |-> "TransferError", out |-> NoOutput]
    ELSE IF match_stat(At(tr.x, 4)) # "Ok"
    THEN [err |-> match_stat(At(tr.x, 4)), out |-> NoOutput]
    ELSE decode_output(ty, set_config_para_arm(ty).n, tr.x)

NO_OP == \H02

\* eps_ping: [ALL_IVID, cmd_code, OVERRIDE_BID]
eps_ping_request == <<ALL_IVID, NO_OP, OVERRIDE_BID>>

OUTPUT_BUS_GROUP_ON == \H10

OUTPUT_BUS_GROUP_OFF == \H12

OUTPUT_BUS_GROUP_STATE == \H14

BusGroups == {"BusGroupOn", "BusGroupOff", "BusGroupState"}

\* set_group_outputs (eps.rs): cmd_code of the group
set_group_outputs_cmd_code(typ_group) ==
    CASE typ_group = "BusGroupOn" -> OUTPUT_BUS_GROUP_ON
      [] typ_group = "BusGroupOff" -> OUTPUT_BUS_GROUP_OFF
      [] typ_group = "BusGroupState" -> OUTPUT_BUS_GROUP_STATE

\* set_group_outputs: [ALL_IVID, cmd_code, OVERRIDE_BID] ++ eps_bitflag.to_le_bytes()
set_group_outputs_request(typ_group, eps_bitflag) ==
    <<ALL_IVID, set_group_outputs_cmd_code(typ_group), OVERRIDE_BID>>
        \o to_le_bytes(eps_bitflag, 2)

\* bus_group (lib.rs): cmd_code of the group
bus_group_cmd_code(typ_group) ==
    CASE typ_group = "BusGroupOn" -> OUTPUT_BUS_CHANNEL_ON
      [] typ_group = "BusGroupOff" -> OUTPUT_BUS_GROUP_OFF
      [] typ_group = "BusGroupState" -> OUTPUT_BUS_GROUP_STATE

\* bus_group: [ALL_IVID, cmd_code, OVERRIDE_BID] ++ obc_bf.to_le_bytes()
bus_group_request(typ_group, obc_bf) ==
    <<ALL_IVID, bus_group_cmd_code(typ_group), OVERRIDE_BID>>
        \o to_le_bytes(obc_bf, 2)

\* bus_group: Ok(_x) => Ok(()), whatever the response holds
bus_group_result(tr) ==
    IF ~tr.ok THEN [err |-> "TransferError", out |-> NoOutput]
    ELSE [err |-> "Ok", out |-> NoOutput]

\* the channel bitmasks the group commands are called with
GroupFlags == {\H0000, \H0001, \H0053, \H0100, \H8001, \HFFFF}

\* the parameters the calls are made with: one of each value family, the
\* first and last declared delay index and delay indices past the last
CallWriteParams ==
    DeclaredWrite
        \cup {PI("ChStartupDelay", DelayIndexMax + 1), PI("ChLatchoffDelay", U8_MAX)}

CallReadParams ==
    {P("ChForceEnaUseBf"), P("SafetyVoltLoThrUsed"), P("AdcMcuTempV25T30"),
     P("Stid"), P("ConfParamChanged")}

\* the ConfigParamWriteU16 values among them
CallSetParams == CallWriteParams \cap ConfigParamWriteU16

\* the values the set operations are called with
U32Inputs == {[lo |-> \H5678, hi |-> \H1234]}

I16Inputs == {-2, \H0102}

U8Inputs == {\HA5}

I8Inputs == {-1, \H05}

InitCalls ==
    /\ reg = RegIdle
    /\ crcv = CrcIdle
    /\ dev = [a \in DevAddrs |-> <<>>]
    /\ InitRest

\* match_stat(typ) on one byte
MatchStat(typ) ==
    /\ call = CallIdle
    /\ call' = [op |-> "match_stat", typ |-> typ, ret |-> match_stat(typ)]
    /\ UNCHANGED <<reg, crcv, saveVars, chs>>

\* the call has returned and its result was consumed
CallReturn ==
    /\ call # CallIdle
    /\ call' = CallIdle
    /\ UNCHANGED <<reg, crcv, saveVars, chs>>

\* get_config_para_write(param)
get_config_para_write(param, r) ==
    /\ call = CallIdle
    /\ LET arm == get_config_para_write_arm(get_id(param))
           req == get_config_para_write_request(param)
           tr == Response(arm.rx_len, r)
       IN  call' = [op |-> "get_config_para_write", param |-> param,
                    bus |-> IF arm.ty = "none" THEN <<>> ELSE <<req>>,
                    tr |-> IF arm.ty = "none" THEN [ok |-> FALSE, x |-> <<>>] ELSE tr,
                    ret |-> get_config_para_write_result(param, tr)]
    /\ UNCHANGED <<reg, crcv, saveVars, chs>>

\* get_config_para_read(param)
get_config_para_read(param, r) ==
    /\ call = CallIdle
    /\ LET arm == get_config_para_read_arm(read_get_id(param))
           req == get_config_para_read_request(param)
           tr == Response(arm.rx_len, r)
       IN  call' = [op |-> "get_config_para_read", param |-> param,
                    bus |-> IF arm.ty = "none" THEN <<>> ELSE <<req>>,
                    tr |-> IF arm.ty = "none" THEN [ok |-> FALSE, x |-> <<>>] ELSE tr,
                    ret |-> get_config_para_read_result(param, tr)]
    /\ UNCHANGED <<reg, crcv, saveVars, chs>>

\* set_config_para_u16(param, input)
set_config_para_u16(param, input, r) ==
    /\ call = CallIdle
    /\ LET req == set_config_para_u16_request(param, input)
           tr == Response(10, r)
       IN  call' = [op |-> "set_config_para_u16", param |-> param,
                    ty |-> "U16", input |-> input,
                    bus |-> <<req>>, tr |-> tr,
                    ret |-> set_config_para_u16_result(tr)]
    /\ UNCHANGED <<reg, crcv, saveVars, chs>>

\* reset_param(param)
reset_param(param, r) ==
    /\ call = CallIdle
    /\ LET arm == reset_param_arm(get_id(param))
           req == reset_param_request(param)
           tr == Response(arm.rx_len, r)
       IN  call' = [op |-> "reset_param", param |-> param,
                    bus |-> IF arm.ty = "none" THEN <<>> ELSE <<req>>,
                    tr |-> IF arm.ty = "none" THEN [ok |-> FALSE, x |-> <<>>] ELSE tr,
                    ret |-> reset_param_result(param, tr)]
    /\ UNCHANGED <<reg, crcv, saveVars, chs>>

\* system_status(typ_stid)
system_status(r) ==
    /\ call = CallIdle
    /\ LET tr == Response(36, r)
       IN  call' = [op |-> "system_status", param |-> None,
                    bus |-> <<system_status_request>>, tr |-> tr,
                    ret |-> system_status_result(tr)]
    /\ UNCHANGED <<reg, crcv, saveVars, chs>>

\* set_single_output(typ_stid, typ_channel, eps_ch_idx)
set_single_output(typ_stid, typ_channel, eps_ch_idx, r) ==
    /\ call = CallIdle
    /\ IF set_single_output_rejects(eps_ch_idx)
       THEN call' = [op |-> "set_single_output", param |-> None,
                     typ_channel |-> typ_channel, eps_ch_idx |-> eps_ch_idx,
                     cmd |-> -1, bus |-> <<>>, tr |-> [ok |-> FALSE, x |-> <<>>],
                     ret |-> [err |-> "InvalidInput", out |-> NoOutput]]
       ELSE LET tr == Response(5, r)
            IN  call' = [op |-> "set_single_output", param |-> None,
                         typ_channel |-> typ_channel, eps_ch_idx |-> eps_ch_idx,
                         cmd |-> match_st_id(typ_stid),
                         bus |-> <<set_single_output_request(typ_channel, eps_ch_idx)>>,
                         tr |-> tr, ret |-> unit_result(tr)]
    /\ UNCHANGED <<reg, crcv, saveVars, chs>>

\* reset_all_conf()
reset_all_conf(r) ==
    /\ call = CallIdle
    /\ LET tr == Response(5, r)
       IN  call' = [op |-> "reset_all_conf", param |-> None,
                    bus |-> <<reset_all_conf_request>>, tr |-> tr,
                    ret |-> unit_result(tr)]
    /\ UNCHANGED <<reg, crcv, saveVars, chs>>

\* load_config()
load_config(r) ==
    /\ call = CallIdle
    /\ LET tr == Response(5, r)
       IN  call' = [op |-> "load_config", param |-> None,
                    bus |-> <<load_config_request>>, tr |-> tr,
                    ret |-> unit_result(tr)]
    /\ UNCHANGED <<reg, crcv, saveVars, chs>>

\* save_config_force()
save_config_force(r) ==
    /\ call = CallIdle
    /\ LET tr == Response(5, r)
       IN  call' = [op |-> "save_config_force", param |-> None,
                    bus |-> <<save_config_force_request>>, tr |-> tr,
                    ret |-> unit_result(tr)]
    /\ UNCHANGED <<reg, crcv, saveVars, chs>>

\* set_config_para_u32(param, input): one transfer, then the decoding
set_config_para_u32(param, input, r) ==
    /\ call = CallIdle
    /\ LET req == set_config_para_request("U32", param, input)
           tr == Response(set_config_para_arm("U32").rx_len, r)
       IN  call' = [op |-> "set_config_para_u32", param |-> param,
                    ty |-> "U32", input |-> input,
                    bus |-> <<req>>, tr |-> tr,
                    ret |-> set_config_para_result("U32", tr)]
    /\ UNCHANGED <<reg, crcv, saveVars, chs>>

\* set_config_para_i16(param, input): one transfer, then the decoding
set_config_para_i16(param, input, r) ==
    /\ call = CallIdle
    /\ LET req == set_config_para_request("I16", param, input)
           tr == Response(set_config_para_arm("I16").rx_len, r)
       IN  call' = [op |-> "set_config_para_i16", param |-> param,
                    ty |-> "I16", input |-> input,
                    bus |-> <<req>>, tr |-> tr,
                    ret |-> set_config_para_result("I16", tr)]
    /\ UNCHANGED <<reg, crcv, saveVars, chs>>

\* set_config_para_u8(param, input): one transfer, then the decoding
set_config_para_u8(param, input, r) ==
    /\ call = CallIdle
    /\ LET req == set_config_para_request("U8", param, input)
           tr == Response(set_config_para_arm("U8").rx_len, r)
       IN  call' = [op |-> "set_config_para_u8", param |-> param,
                    ty |-> "U8", input |-> input,
                    bus |-> <<req>>, tr |-> tr,
                    ret |-> set_config_para_result("U8", tr)]
    /\ UNCHANGED <<reg, crcv, saveVars, chs>>

\* set_config_para_i8(param, input): one transfer, then the decoding
set_config_para_i8(param, input, r) ==
    /\ call = CallIdle
    /\ LET req == set_config_para_request("I8", param, input)
           tr == Response(set_config_para_arm("I8").rx_len, r)
       IN  call' = [op |-> "set_config_para_i8", param |-> param,
                    ty |-> "I8", input |-> input,
                    bus |-> <<req>>, tr |-> tr,
                    ret |-> set_config_para_result("I8", tr)]
    /\ UNCHANGED <<reg, crcv, saveVars, chs>>

\* eps_ping(typ_stid)
eps_ping(typ_stid, r) ==
    /\ call = CallIdle
    /\ LET tr == Response(5, r)
       IN  call' = [op |-> "eps_ping", param |-> None,
                    cmd |-> match_st_id(typ_stid),
                    bus |-> <<eps_ping_request>>, tr |-> tr,
                    ret |-> unit_result(tr)]
    /\ UNCHANGED <<reg, crcv, saveVars, chs>>

\* set_group_outputs(typ_stid, typ_group, eps_bitflag) of eps.rs
set_group_outputs(typ_stid, typ_group, eps_bitflag, r) ==
    /\ call = CallIdle
    /\ LET tr == Response(5, r)
       IN  call' = [op |-> "set_group_outputs", param |-> None,
                    typ_group |-> typ_group, bitflag |-> eps_bitflag,
                    cmd |-> match_st_id(typ_stid),
                    bus |-> <<set_group_outputs_request(typ_group, eps_bitflag)>>,
                    tr |-> tr, ret |-> unit_result(tr)]
    /\ UNCHANGED <<reg, crcv, saveVars, chs>>

\* bus_group(typ_stid, typ_group, obc_bf) of lib.rs
bus_group(typ_stid, typ_group, obc_bf, r) ==
    /\ call = CallIdle
    /\ LET tr == Response(1, r)
       IN  call' = [op |-> "bus_group", param |-> None,
                    typ_group |-> typ_group, bitflag |-> obc_bf,
                    cmd |-> match_st_id(typ_stid),
                    bus |-> <<bus_group_request(typ_group, obc_bf)>>,
                    tr |-> tr, ret |-> bus_group_result(tr)]
    /\ UNCHANGED <<reg, crcv, saveVars, chs>>

NextCalls ==
    \/ call = CallIdle /\ \E typ \in 0..U8_MAX : MatchStat(typ)
    \/ call = CallIdle /\ \E s \in StIDs, c \in {"ChannelOn", "ChannelOff"}, i \in 0..U8_MAX,
             o \in {-1} \cup CallStats :
           set_single_output(s, c, i, [o |-> o, hdr |-> 0, pay |-> 0])
    \/ call = CallIdle /\ \E p \in CallWriteParams, r \in Replies : get_config_para_write(p, r)
    \/ call = CallIdle /\ \E p \in CallReadParams, r \in Replies : get_config_para_read(p, r)
    \/ call = CallIdle /\ \E p \in CallSetParams, v \in SetInputs, r \in Replies : set_config_para_u16(p, v, r)
    \/ call = CallIdle /\ \E p \in CallWriteParams, r \in Replies : reset_param(p, r)
    \/ call = CallIdle /\ \E r \in Replies : system_status(r)
    \/ call = CallIdle /\ \E o \in {-1} \cup CallStats : reset_all_conf([o |-> o, hdr |-> 0, pay |-> 0])
    \/ call = CallIdle /\ \E o \in {-1} \cup CallStats : load_config([o |-> o, hdr |-> 0, pay |-> 0])
    \/ call = CallIdle /\ \E o \in {-1} \cup CallStats : save_config_force([o |-> o, hdr |-> 0, pay |-> 0])
    \/ call = CallIdle /\ \E p \in ConfigParamWriteU32, v \in U32Inputs, r \in Replies : set_config_para_u32(p, v, r)
    \/ call = CallIdle /\ \E p \in ConfigParamWriteI16, v \in I16Inputs, r \in Replies : set_config_para_i16(p, v, r)
    \/ call = CallIdle /\ \E p \in ConfigParamWriteU8, v \in U8Inputs, r \in Replies : set_config_para_u8(p, v, r)
    \/ call = CallIdle /\ \E p \in ConfigParamWriteI8, v \in I8Inputs, r \in Replies : set_config_para_i8(p, v, r)
    \/ call = CallIdle /\ \E s \in StIDs, o \in {-1} \cup CallStats :
           eps_ping(s, [o |-> o, hdr |-> 0, pay |-> 0])
    \/ call = CallIdle /\ \E s \in StIDs, g \in BusGroups, f \in GroupFlags,
                              o \in {-1} \cup CallStats :
           set_group_outputs(s, g, f, [o |-> o, hdr |-> 0, pay |-> 0])
    \/ call = CallIdle /\ \E s \in StIDs, g \in BusGroups, f \in GroupFlags, o \in {-1, 0} :
           bus_group(s, g, f, [o |-> o, hdr |-> 0, pay |-> 0])
    \/ CallReturn

SpecCalls == InitCalls /\ [][NextCalls]_vars

\* the names of the EpsError variants a status byte can decode to
StatusErrors ==
    {"Rejected", "InvalidCommandCode", "ParameterMissing", "Parameterinvalid",
     "UnavailableMode", "InvalidSystemType", "InternalProcessing"}

\* C12: match_stat is total over the 256 byte values: 0x00 and 0x80 decode as
\* accepted, 0x01..0x06 as Rejected, InvalidCommandCode, ParameterMissing,
\* ParameterInvalid, UnavailableInCurrentMode and InvalidAddressing
\* (InvalidSystemType), and every other byte as InternalProcessing.
C12_StatusDecodeTotal ==
    call.op = "match_stat" =>
        /\ call.ret \in {"Ok"} \cup StatusErrors
        /\ (call.ret = "Ok") <=> (call.typ \in {0, 128})
        /\ (call.ret = "Rejected") <=> (call.typ = 1)
        /\ (call.ret = "InvalidCommandCode") <=> (call.typ = 2)
        /\ (call.ret = "ParameterMissing") <=> (call.typ = 3)
        /\ (call.ret = "Parameterinvalid") <=> (call.typ = 4)
        /\ (call.ret = "UnavailableMode") <=> (call.typ = 5)
        /\ (call.ret = "InvalidSystemType") <=> (call.typ = 6)

\* the first-read flag 0x80 was decoded as accepted
C12_Witness ==
    /\ call.op = "match_stat"
    /\ call.typ = 128
    /\ call.ret = "Ok"

\* the operations that decode a payload out of the response
DecodingOps ==
    {"get_config_para_write", "get_config_para_read", "set_config_para_u16",
     "reset_param", "system_status"}

\* C13: for every operation that decodes a response payload, when the status
\* byte at offset 4 is not an accepted code the operation returns the error
\* decoded from that byte and nothing read from the payload bytes.
C13_RejectedStatusSkipsPayload ==
    (/\ call.op \in DecodingOps
     /\ call.tr.ok
     /\ At(call.tr.x, 4) \notin {0, 128}) =>
        /\ call.ret.err = match_stat(At(call.tr.x, 4))
        /\ call.ret.err \in StatusErrors
        /\ call.ret.out.ty = "none"

\* system_status got status 0x04 in a response whose mode byte is not a mode
C13_Witness ==
    /\ call.op = "system_status"
    /\ call.tr.ok
    /\ At(call.tr.x, 4) = 4
    /\ At(call.tr.x, 5) = 5
    /\ call.ret.err = "Parameterinvalid"

\* the operations that take a writable parameter identifier
WriteParamOps == {"get_config_para_write", "set_config_para_u16", "reset_param"}

\* C14: a get, set or reset of a parameter identifier the registry does not
\* know (ChStartupDelay(i) or ChLatchoffDelay(i) with i >= 32) returns an
\* error to the caller without any transaction being issued on the bus.
C14_UnknownParameterNoTransaction ==
    (call.op \in WriteParamOps /\ call.param \notin DeclaredWrite) =>
        /\ call.bus = <<>>
        /\ call.ret.err # "Ok"

\* what the code does instead: the request goes out to address 0x4000, the
\* address of TtcWdgTimeout
C14_UnknownAddressesWatchdog ==
    (call.op \in WriteParamOps /\ call.param \notin DeclaredWrite) =>
        /\ Len(call.bus) = 1
        /\ SubSeq(call.bus[1], 4, 5) = <<\H00, \H40>>

\* C15: set_single_output with a channel index greater than 0x10 returns an
\* invalid-input error and issues no transaction; with an index <= 0x10 it
\* issues exactly one transaction whose request is
\* [0x06, 0x16 (on) or 0x18 (off), 0x00, index].
C15_SingleOutputIndexChecked ==
    call.op = "set_single_output" =>
        IF call.eps_ch_idx > 16
        THEN call.ret.err = "InvalidInput" /\ call.bus = <<>>
        ELSE /\ Len(call.bus) = 1
             /\ call.bus[1] =
                    <<6, IF call.typ_channel = "ChannelOn" THEN 22 ELSE 24, 0, call.eps_ch_idx>>

\* channel 0x10 was switched off with one accepted transaction
C15_Witness ==
    /\ call.op = "set_single_output"
    /\ call.eps_ch_idx = 16
    /\ call.typ_channel = "ChannelOff"
    /\ call.bus = << <<6, 24, 0, 16>> >>
    /\ call.ret.err = "Ok"

\* index 0x11 was refused
C15_WitnessRefused ==
    /\ call.op = "set_single_output"
    /\ call.eps_ch_idx = 17
    /\ call.ret.err = "InvalidInput"

-----------------------------------------------------------------------------
(* Channel states: BusChannelState is modelled as the function from the     *)
(* channel number 0..15 (field ch00..ch15) to its BusChannel value.         *)

Channels == 0..15

\* a variant of channel_mask that counts the channels from the most
\* significant bit
channel_mask_msb == [n \in Channels |-> 2 ^ (15 - n)]

\* the bit of channel n in on(), off(), state() and From<u16>
channel_mask ==
    [n \in Channels |->
        CASE n = 0 -> \H0001 [] n = 1 -> \H0002 [] n = 2 -> \H0004 [] n = 3 -> \H0008
          [] n = 4 -> \H0010 [] n = 5 -> \H0020 [] n = 6 -> \H0040 [] n = 7 -> \H0080
          [] n = 8 -> \H0100 [] n = 9 -> \H0200 [] n = 10 -> \H0400 [] n = 11 -> \H0800
          [] n = 12 -> \H1000 [] n = 13 -> \H2000 [] n = 14 -> \H4000 [] n = 15 -> \H8000]

\* u & mask != 0 for a one-bit mask
bit_set(u, mask) == (u \div mask) % 2 = 1

\* BusChannelState::default(): every channel Keep
BusChannelState_default == [n \in Channels |-> "Keep"]

\* BusChannel::is_on / is_off
is_on(c) == c = "On"

is_off(c) == c = "Off"

\* u |= mask for every channel n from n on with s[n] true (the masks are
\* distinct bits, so the OR is their sum)
RECURSIVE or_masks(_, _)
or_masks(s, n) ==
    IF n > 15 THEN 0
    ELSE (IF s[n] THEN channel_mask[n] ELSE 0) + or_masks(s, n + 1)

\* BusChannelState::on
BusChannelState_on(st) == or_masks([n \in Channels |-> is_on(st[n])], 0)

\* a variant of BusChannelState_off that counts every channel that is not On
BusChannelState_off_not_on(st) == or_masks([n \in Channels |-> ~is_on(st[n])], 0)

\* BusChannelState::off
BusChannelState_off(st) == or_masks([n \in Channels |-> is_off(st[n])], 0)

\* a variant of BusChannelState_state that reads Keep as Off
BusChannelState_state_lenient(st) ==
    [err |-> "Ok", v |-> or_masks([n \in Channels |-> st[n] = "On"], 0)]

\* BusChannelState::state: an error at the first channel that is neither On
\* nor Off
BusChannelState_state(st) ==
    IF \E n \in Channels : st[n] \notin {"On", "Off"}
    THEN [err |-> "InvalidBusChannelState", v |-> 0]
    ELSE [err |-> "Ok", v |-> or_masks([n \in Channels |-> st[n] = "On"], 0)]

\* a variant of set_channel that reads BusGroupState as a request to switch off
set_channel_state_off(typ_group) ==
    IF typ_group = "BusGroupOn" THEN "On" ELSE "Off"

\* BusChannelState::set_channel
set_channel(typ_group) ==
    CASE typ_group = "BusGroupOn" -> "On"
      [] typ_group = "BusGroupOff" -> "Off"
      [] OTHER -> "Keep"

\* a variant of set_arm that takes the index modulo 16
set_arm_wrapping(c) == c % 16

\* the arm of `match c` in set: the channel it assigns, -1 for the `_` arm
set_arm(c) == IF c \in 0..15 THEN c ELSE -1

\* a variant of set_assign in which a second mention of a channel undoes the first
set_assign_toggle(st, typ_group, n) ==
    [st EXCEPT ![n] = IF st[n] = set_channel(typ_group) THEN "Keep" ELSE set_channel(typ_group)]

\* bus_channel_state.chNN = Self::set_channel(typ_group)
set_assign(st, typ_group, n) == [st EXCEPT ![n] = set_channel(typ_group)]

\* the loop of set from the k-th element on
RECURSIVE set_loop(_, _, _, _)
set_loop(st, typ_group, channels, k) ==
    IF k > Len(channels) THEN [err |-> "Ok", st |-> st]
    ELSE IF set_arm(channels[k]) = -1
    THEN [err |-> "InvalidBusChannelState", st |-> <<>>]
    ELSE set_loop(set_assign(st, typ_group, set_arm(channels[k])), typ_group, channels, k + 1)

\* BusChannelState::set(typ_group, channels)
BusChannelState_set(typ_group, channels) ==
    set_loop(BusChannelState_default, typ_group, channels, 1)

\* a variant of BusChannelState_from that leaves the channels of the 0 bits at Keep
BusChannelState_from_keep(u) ==
    [n \in Channels |-> IF bit_set(u, channel_mask[n]) THEN "On" ELSE "Keep"]

\* From<u16> for BusChannelState
BusChannelState_from(u) ==
    [n \in Channels |-> IF bit_set(u, channel_mask[n]) THEN "On" ELSE "Off"]

MaxChannels == 3

\* the indices the lists are drawn from: valid ones, the last valid one, the
\* first invalid one and the largest u8
ChannelIndices == {0, 1, 7, 15, 16, U8_MAX}

ChannelLists == UNION {[1..n -> ChannelIndices] : n \in 0..MaxChannels}

\* the calls that are made: set(typ_group, channels) and from(u)
ChsInputs ==
    {[op |-> "set", stage |-> 0, typ_group |-> g, channels |-> l] :
        g \in BusGroups, l \in ChannelLists}
    \cup {[op |-> "from", stage |-> 0, u |-> u] : u \in 0..U16_MAX}
    \cup {[op |-> "default", stage |-> 0]}

InitChannels ==
    /\ reg = RegIdle
    /\ crcv = CrcIdle
    /\ dev = [a \in DevAddrs |-> <<>>]
    /\ op = "none"
    /\ pc = "idle"
    /\ it = 0
    /\ result = <<>>
    /\ bus = <<>>
    /\ ret = "none"
    /\ lastStat = 0
    /\ ncalls = 0
    /\ nsets = 0
    /\ prev = NoSave
    /\ cur = NoSave
    /\ call = CallIdle
    /\ chs \in ChsInputs

\* BusChannelState::set(typ_group, channels)
ChsSet ==
    /\ chs.op = "set"
    /\ chs.stage = 0
    /\ LET r == BusChannelState_set(chs.typ_group, chs.channels)
       IN  chs' = [op |-> "set", stage |-> 1, typ_group |-> chs.typ_group,
                   channels |-> chs.channels, err |-> r.err, st |-> r.st]
    /\ UNCHANGED <<reg, crcv, saveVars, call>>

\* BusChannelState::from(u)
ChsFrom ==
    /\ chs.op = "from"
    /\ chs.stage = 0
    /\ chs' = [op |-> "from", stage |-> 1, u |-> chs.u, err |-> "Ok",
               st |-> BusChannelState_from(chs.u)]
    /\ UNCHANGED <<reg, crcv, saveVars, call>>

\* BusChannelState::default()
ChsDefault ==
    /\ chs.op = "default"
    /\ chs.stage = 0
    /\ chs' = [op |-> "default", stage |-> 1, err |-> "Ok", st |-> BusChannelState_default]
    /\ UNCHANGED <<reg, crcv, saveVars, call>>

\* on(), off() and state() of the channel state that was built
ChsMasks ==
    /\ chs.stage = 1
    /\ chs.err = "Ok"
    /\ chs' = [chs EXCEPT !.stage = 2] @@
              [on |-> BusChannelState_on(chs.st),
               off |-> BusChannelState_off(chs.st),
               state |-> BusChannelState_state(chs.st)]
    /\ UNCHANGED <<reg, crcv, saveVars, call>>

NextChannels ==
    \/ ChsSet
    \/ ChsFrom
    \/ ChsDefault
    \/ ChsMasks

SpecChannels == InitChannels /\ [][NextChannels]_vars

-----------------------------------------------------------------------------
(* Properties of the channel states.                                        *)

\* the indices listed in a call of set
Listed(channels) == {channels[i] : i \in DOMAIN channels}

\* the mask with bit n (from the least significant bit) set for each n in S
RECURSIVE MaskOf(_)
MaskOf(S) ==
    IF S = {} THEN 0
    ELSE LET n == CHOOSE m \in S : TRUE
         IN  2 ^ n + MaskOf(S \ {n})

\* C16: set(group, channels) fails with InvalidBusChannelState whenever a
\* listed index is >= 16, wherever it is in the list, and succeeds whenever
\* every listed index is <= 15; a failure returns no channel state.
C16_SetRejectsInvalidIndex ==
    (chs.op = "set" /\ chs.stage >= 1) =>
        IF \E i \in DOMAIN chs.channels : chs.channels[i] >= 16
        THEN chs.err = "InvalidBusChannelState" /\ DOMAIN chs.st = {}
        ELSE chs.err = "Ok" /\ DOMAIN chs.st = Channels

\* index 16 between two valid indices was refused
C16_Witness ==
    /\ chs.op = "set"
    /\ chs.stage = 1
    /\ chs.channels = <<15, 16, 0>>
    /\ chs.err = "InvalidBusChannelState"

\* index 15 alone was accepted
C16_WitnessLast ==
    /\ chs.op = "set"
    /\ chs.stage = 1
    /\ chs.channels = <<15>>
    /\ chs.err = "Ok"

\* C17: for every 16-bit u, from(u) sets channel n to On when bit n of u is 1
\* and to Off when it is 0, never to Keep; so from(u).on() = u, from(u).off()
\* is the 16-bit complement of u and from(u).state() = Ok(u).
C17_FromBitflags ==
    (chs.op = "from" /\ chs.stage >= 1) =>
        /\ \A n \in Channels :
               chs.st[n] = IF (chs.u \div 2 ^ n) % 2 = 1 THEN "On" ELSE "Off"
        /\ chs.stage = 2 =>
               /\ chs.on = chs.u
               /\ chs.off = U16_MAX - chs.u
               /\ chs.state = [err |-> "Ok", v |-> chs.u]

\* from(0x0003): channels 0 and 1 On, all others Off
C17_Witness ==
    /\ chs.op = "from"
    /\ chs.stage = 2
    /\ chs.u = 3
    /\ chs.st[0] = "On"
    /\ chs.st[1] = "On"
    /\ chs.st[2] = "Off"
    /\ chs.on = 3

\* C18: bit n, counted from the least significant bit, is channel n:
\* set(BusGroupOn, S).on() is the OR of 1 << n for n in S with off() = 0,
\* set(BusGroupOff, S).off() is that mask with on() = 0, and the channels
\* not in S stay Keep.
C18_BitOrder ==
    (chs.op = "set" /\ chs.stage = 2) =>
        /\ chs.typ_group = "BusGroupOn" =>
               chs.on = MaskOf(Listed(chs.channels)) /\ chs.off = 0
        /\ chs.typ_group = "BusGroupOff" =>
               chs.off = MaskOf(Listed(chs.channels)) /\ chs.on = 0
        /\ \A n \in Channels \ Listed(chs.channels) : chs.st[n] = "Keep"

\* channels 1, 7 and 15 were switched on: mask 0x8082
C18_Witness ==
    /\ chs.op = "set"
    /\ chs.stage = 2
    /\ chs.typ_group = "BusGroupOn"
    /\ Listed(chs.channels) = {1, 7, 15}
    /\ chs.on = 32898

\* C19: state() returns an error whenever at least one channel is Keep, and
\* Ok(mask) with bit n set exactly for the channels that are On when every
\* channel is On or Off.
C19_StateNeedsEveryChannel ==
    chs.stage = 2 =>
        IF \E n \in Channels : chs.st[n] = "Keep"
        THEN chs.state.err = "InvalidBusChannelState"
        ELSE chs.state = [err |-> "Ok", v |-> MaskOf({n \in Channels : chs.st[n] = "On"})]

\* one channel On, the others Keep: state() failed
C19_Witness ==
    /\ chs.op = "set"
    /\ chs.stage = 2
    /\ chs.typ_group = "BusGroupOn"
    /\ chs.channels = <<7>>
    /\ chs.state.err = "InvalidBusChannelState"

\* every channel On or Off: state() succeeded
C19_WitnessOk ==
    /\ chs.op = "from"
    /\ chs.stage = 2
    /\ chs.u = 32769
    /\ chs.state = [err |-> "Ok", v |-> 32769]

\* C20: set is idempotent and order-independent in its index list: for a
\* given group, two lists of valid indices with the same set of indices,
\* with any repetitions and in any order, give the same channel state.
C20_SetOrderIndependent ==
    (chs.op = "set" /\ chs.stage >= 1 /\ chs.err = "Ok") =>
        \A l \in ChannelLists :
            Listed(l) = Listed(chs.channels) =>
                BusChannelState_set(chs.typ_group, l) = [err |-> "Ok", st |-> chs.st]

\* a list with a repeated index out of order was applied
C20_Witness ==
    /\ chs.op = "set"
    /\ chs.stage = 1
    /\ chs.typ_group = "BusGroupOff"
    /\ chs.channels = <<1, 0, 1>>
    /\ chs.err = "Ok"
    /\ chs.st[0] = "Off"
    /\ chs.st[1] = "Off"

-----------------------------------------------------------------------------
(* Properties of the guarded commands and of the request frames.            *)

\* C21: reset_all_conf(), load_config() and save_config_force() each issue
\* exactly one transaction whose request is [0x06, opcode, 0x00, 0xA7] with
\* opcode 0x90, 0x92 and 0x94, the guard key always 0xA7; save_config_force()
\* appends exactly one further byte, the ignore-checksum marker.
C21_GuardedCommands ==
    /\ call.op = "reset_all_conf" => call.bus = << <<6, 144, 0, 167>> >>
    /\ call.op = "load_config" => call.bus = << <<6, 146, 0, 167>> >>
    /\ call.op = "save_config_force" =>
           /\ Len(call.bus) = 1
           /\ Len(call.bus[1]) = 5
           /\ SubSeq(call.bus[1], 1, 4) = <<6, 148, 0, 167>>

\* a forced save went out and was accepted
C21_Witness ==
    /\ call.op = "save_config_force"
    /\ call.bus = << <<6, 148, 0, 167, 0>> >>
    /\ call.ret.err = "Ok"

SetOps ==
    {"set_config_para_u32", "set_config_para_u16", "set_config_para_i16",
     "set_config_para_u8", "set_config_para_i8"}

ParamOps == SetOps \cup {"get_config_para_write", "get_config_para_read", "reset_param"}

\* the command code the interface documents for an operation
OpcodeOf(o) ==
    IF o \in SetOps THEN 132
    ELSE IF o = "reset_param" THEN 134
    ELSE 130

\* the address of the parameter of the call
AddressOf(c) ==
    IF c.op = "get_config_para_read" THEN read_get_id(c.param) ELSE get_id(c.param)

\* the little-endian two's-complement bytes of the value of a set call
ValueLe(c) ==
    IF c.ty = "U32"
    THEN <<c.input.lo % 256, c.input.lo \div 256, c.input.hi % 256, c.input.hi \div 256>>
    ELSE IF c.ty \in {"U16", "I16"}
    THEN LET w == IF c.input < 0 THEN c.input + 65536 ELSE c.input
         IN  <<w % 256, w \div 256>>
    ELSE <<IF c.input < 0 THEN c.input + 256 ELSE c.input>>

\* C22: every request of a get, set or reset operation starts with 0x06, the
\* command code (0x82 get, 0x84 set, 0x86 reset) and 0x00, then carries the
\* parameter address low byte first; a set request is followed by exactly
\* width-many value bytes, little-endian, a get or reset request by nothing.
C22_RequestFrames ==
    call.op \in ParamOps =>
        \A k \in 1..Len(call.bus) :
            LET req == call.bus[k]
                a == AddressOf(call)
            IN  /\ Len(req) >= 5
                /\ SubSeq(req, 1, 5) = <<6, OpcodeOf(call.op), 0, a % 256, a \div 256>>
                /\ call.op \in SetOps =>
                       /\ Len(req) = 5 + get_len(call.param)
                       /\ SubSeq(req, 6, Len(req)) = ValueLe(call)
                /\ call.op \notin SetOps => Len(req) = 5

C22_Witness ==
    /\ call.op = "set_config_para_u32"
    /\ call.param = P("ChLatchoffKey")
    /\ call.bus = << <<6, 132, 0, 5, 96, 120, 86, 52, 18>> >>
    /\ call.ret.err = "Ok"

C22_WitnessReset ==
    /\ call.op = "reset_param"
    /\ call.param = P("SafetyVoltLoThr")
    /\ call.bus = << <<6, 134, 0, 66, 64>> >>

-----------------------------------------------------------------------------
(* A session of calls against the device: the device stores the value of a *)
(* set it accepts, restores the power-up value on a reset it accepts and   *)
(* answers a get with the value it holds.                                  *)

MaxSession == 4

SessionParams == {P("SafetyVoltLoThr")}

SessionInputs == {300, 301}

\* the status byte of the answer: accepted, or rejected
SessionOutcomes == {\H00, \H04}

\* the calls made so far, each with what it returned
Session == IF call.op = "session" THEN call.log ELSE <<>>

InitSession ==
    /\ reg = RegIdle
    /\ crcv = CrcIdle
    /\ dev = DevPowerUp
    /\ InitRest

\* set_config_para_u16(param, input) against the device
SessionSet(param, input, o) ==
    /\ Len(Session) < MaxSession
    /\ LET req == set_config_para_u16_request(param, input)
           tr == Transfer(req, 10, o)
       IN  /\ dev' = IF Accepted(o) /\ ReqAddr(req) \in DOMAIN dev
                     THEN [dev EXCEPT ![ReqAddr(req)] = SubSeq(req, 6, Len(req))]
                     ELSE dev
           /\ call' = [op |-> "session",
                       log |-> Append(Session,
                                      [op |-> "set_config_para_u16", param |-> param,
                                       input |-> input,
                                       ret |-> set_config_para_u16_result(tr)])]
    /\ UNCHANGED <<reg, crcv, op, pc, it, result, bus, ret, lastStat, ncalls, nsets,
                   prev, cur, chs>>

\* get_config_para_write(param) against the device
SessionGet(param, o) ==
    /\ Len(Session) < MaxSession
    /\ LET arm == get_config_para_write_arm(get_id(param))
           req == get_config_para_write_request(param)
           tr == Transfer(req, arm.rx_len, o)
       IN  call' = [op |-> "session",
                    log |-> Append(Session,
                                   [op |-> "get_config_para_write", param |-> param,
                                    input |-> 0,
                                    ret |-> get_config_para_write_result(param, tr)])]
    /\ UNCHANGED <<reg, crcv, saveVars, chs>>

\* reset_param(param) against the device
SessionReset(param, o) ==
    /\ Len(Session) < MaxSession
    /\ LET arm == reset_param_arm(get_id(param))
           req == reset_param_request(param)
           tr == Transfer(req, arm.rx_len, o)
       IN  /\ dev' = IF Accepted(o) /\ ReqAddr(req) \in DOMAIN dev
                     THEN [dev EXCEPT ![ReqAddr(req)] = DevPowerUp[ReqAddr(req)]]
                     ELSE dev
           /\ call' = [op |-> "session",
                       log |-> Append(Session,
                                      [op |-> "reset_param", param |-> param,
                                       input |-> 0,
                                       ret |-> reset_param_result(param, tr)])]
    /\ UNCHANGED <<reg, crcv, op, pc, it, result, bus, ret, lastStat, ncalls, nsets,
                   prev, cur, chs>>

NextSession ==
    \/ \E p \in SessionParams, v \in SessionInputs, o \in SessionOutcomes : SessionSet(p, v, o)
    \/ \E p \in SessionParams, o \in SessionOutcomes : SessionGet(p, o)
    \/ \E p \in SessionParams, o \in SessionOutcomes : SessionReset(p, o)

SpecSession == InitSession /\ [][NextSession]_vars

\* the power-up value of a 16-bit parameter of the device
HardCodedDefault(param) == from_le_bytes(DevPowerUp[get_id(param)])

\* call k of the session succeeded and is the operation o on SafetyVoltLoThr
SessionOk(k, o) ==
    /\ Session[k].op = o
    /\ Session[k].param = P("SafetyVoltLoThr")
    /\ Session[k].ret.err = "Ok"

\* no successful set or reset lies strictly between the calls i and j
Untouched(i, j) ==
    \A k \in (i + 1)..(j - 1) :
        ~SessionOk(k, "set_config_para_u16") /\ ~SessionOk(k, "reset_param")

\* C23: against a device that stores accepted writes, a get that follows a
\* successful set_config_para_u16(SafetyVoltLoThr, 300) returns the 16-bit
\* value 300; a successful reset_param(SafetyVoltLoThr) returns the device's
\* default for 0x4042, which is not 300, and a get after it returns that default.
C23_SetGetResetGet ==
    /\ get_id(P("SafetyVoltLoThr")) = \H4042
    /\ \A i \in DOMAIN Session, j \in DOMAIN Session :
           /\ ( /\ i < j
                /\ SessionOk(i, "set_config_para_u16")
                /\ Session[i].input = 300
                /\ SessionOk(j, "get_config_para_write")
                /\ Untouched(i, j) )
              => Session[j].ret.out = [ty |-> "U16", v |-> 300]
           /\ SessionOk(j, "reset_param")
              => /\ Session[j].ret.out =
                        [ty |-> "U16", v |-> HardCodedDefault(P("SafetyVoltLoThr"))]
                 /\ Session[j].ret.out.v # 300
           /\ ( /\ i < j
                /\ SessionOk(i, "reset_param")
                /\ SessionOk(j, "get_config_para_write")
                /\ Untouched(i, j) )
              => Session[j].ret.out =
                     [ty |-> "U16", v |-> HardCodedDefault(P("SafetyVoltLoThr"))]

C23_Witness ==
    /\ Len(Session) = 4
    /\ SessionOk(1, "set_config_para_u16")
    /\ Session[1].input = 300
    /\ SessionOk(2, "get_config_para_write")
    /\ Session[2].ret.out.v = 300
    /\ SessionOk(3, "reset_param")
    /\ SessionOk(4, "get_config_para_write")
    /\ Session[4].ret.out.v = HardCodedDefault(P("SafetyVoltLoThr"))

-----------------------------------------------------------------------------
(* Every operation of the interface, one call at a time: the calls of the  *)
(* save protocol and the single calls.                                     *)

NextOps ==
    \/ call = CallIdle /\ Next
    \/ pc = "idle" /\ ncalls = 0 /\ nsets = 0 /\ NextCalls

SpecOps == Init /\ [][NextOps]_vars

\* a single call that may use the bus is in progress
BusCall == call.op \notin {"none", "match_stat"}

\* the transfer of a single call failed at the transport or was not accepted
\* (bus_group of lib.rs requests one byte and so receives no status)
CallFailed ==
    \/ ~call.tr.ok
    \/ Len(call.tr.x) > 4 /\ match_stat(At(call.tr.x, 4)) # "Ok"

\* what C24 says of the operations that may issue more than one transaction:
\* none is issued after a failed one, and the failure is what is returned
NoTransactionAfterFailure ==
    /\ \A i \in 1..(Len(bus) - 1) : bus[i].ok
    /\ (pc = "done" /\ Len(bus) > 0 /\ ~bus[Len(bus)].ok) => ret # "Ok"

\* what C24 says of a single call: at most one transaction, whose failure is
\* what is returned
AtMostOneTransaction ==
    BusCall =>
        /\ Len(call.bus) <= 1
        /\ (Len(call.bus) = 1 /\ CallFailed) => call.ret.err # "Ok"

C24_WitnessSingle ==
    /\ call.op = "eps_ping"
    /\ Len(call.bus) = 1
    /\ call.ret.err = "TransferError"

-----------------------------------------------------------------------------
(* Properties of the response lengths and of the decoded values.           *)

\* the arm (variant, payload width, requested response length) a call took
ArmOf(c) ==
    IF c.op = "get_config_para_write" THEN get_config_para_write_arm(get_id(c.param))
    ELSE IF c.op = "get_config_para_read" THEN get_config_para_read_arm(read_get_id(c.param))
    ELSE IF c.op = "reset_param" THEN reset_param_arm(get_id(c.param))
    ELSE set_config_para_arm(c.ty)

\* C27: in every configuration operation every response index the code reads
\* (the status at offset 4, the payload at offsets 8 .. 8+width-1) is smaller
\* than the response length it requested, rx_len >= 8 + width, so that no
\* read falls outside the response.
C27_ReadsWithinResponse ==
    (call.op \in ParamOps /\ Len(call.bus) = 1) =>
        /\ ArmOf(call).rx_len > 4
        /\ ArmOf(call).rx_len >= 8 + ArmOf(call).n
        /\ call.ret.err # "panic"

\* the operations other than the one-byte arms of get_config_para_read and
\* reset_param request every byte they read
C27_ExceptOneByteArms ==
    ( /\ call.op \in ParamOps
      /\ Len(call.bus) = 1
      /\ ~(call.op \in {"get_config_para_read", "reset_param"} /\ ArmOf(call).n = 1) ) =>
        /\ ArmOf(call).rx_len >= 8 + ArmOf(call).n
        /\ call.ret.err # "panic"

\* the Output variant the interface documents for an address
VariantOf(a) ==
    IF a \div 256 = 96 THEN "U32"
    ELSE IF a \div 256 = 64 THEN "U16"
    ELSE IF a \div 256 = 48 THEN "I16"
    ELSE IF a \div 256 = 32 THEN "U8"
    ELSE IF a \div 256 = 16 THEN "I8"
    ELSE "none"

\* the value of variant ty held little-endian in the n bytes at offset 8 of x
PayloadValue(ty, n, x) ==
    LET b(i) == x[8 + i]
    IN  IF n = 4 THEN [lo |-> b(1) + 256 * b(2), hi |-> b(3) + 256 * b(4)]
        ELSE IF n = 2
        THEN LET w == b(1) + 256 * b(2)
             IN  IF ty = "I16" /\ w >= 32768 THEN w - 65536 ELSE w
        ELSE IF ty = "I8" /\ b(1) >= 128 THEN b(1) - 256 ELSE b(1)

WriteOps == SetOps \cup {"get_config_para_write", "reset_param"}

\* C25: for every declared writable parameter, get_config_para_write, the
\* set_config_para_* operation of its family and reset_param decode an
\* accepted response into the Output variant of the parameter's address range
\* (U32 0x60xx, U16 0x40xx, I16 0x30xx, U8 0x20xx, I8 0x10xx), from exactly
\* get_len() payload bytes.
C25_VariantByAddress ==
    ( /\ call.op \in WriteOps
      /\ call.param \in DeclaredWrite
      /\ Len(call.bus) = 1
      /\ ~CallFailed ) =>
        /\ call.ret.err = "Ok"
        /\ call.ret.out.ty = VariantOf(get_id(call.param))
        /\ ArmOf(call).n = get_len(call.param)
        /\ call.ret.out.v =
               PayloadValue(call.ret.out.ty, get_len(call.param), call.tr.x)

\* the same, reset_param of the one-byte parameters left out
C25_ExceptOneByteReset ==
    ( /\ call.op \in WriteOps
      /\ call.param \in DeclaredWrite
      /\ Len(call.bus) = 1
      /\ ~CallFailed
      /\ ~(call.op = "reset_param" /\ get_len(call.param) = 1) ) =>
        /\ call.ret.err = "Ok"
        /\ call.ret.out.ty = VariantOf(get_id(call.param))
        /\ ArmOf(call).n = get_len(call.param)
        /\ call.ret.out.v =
               PayloadValue(call.ret.out.ty, get_len(call.param), call.tr.x)

-----------------------------------------------------------------------------
(* Properties of the group-output command.                                 *)

GroupOps == {"set_group_outputs", "bus_group"}

\* the command code the interface documents for a group
GroupOpcode(g) ==
    IF g = "BusGroupOn" THEN 16 ELSE IF g = "BusGroupOff" THEN 18 ELSE 20

\* C26: every implementation of the group-output command (set_group_outputs
\* of eps.rs, bus_group of lib.rs) sends the command code 0x10 for BusGroupOn,
\* 0x12 for BusGroupOff and 0x14 for BusGroupState and, after the board
\* selector byte, the 16-bit channel bitmask as two bytes, low byte first.
C26_GroupCommandFrame ==
    call.op \in GroupOps =>
        call.bus = << <<6, GroupOpcode(call.typ_group), 0,
                        call.bitflag % 256, call.bitflag \div 256>> >>

\* the same of every group command but bus_group(BusGroupOn)
C26_ExceptLibGroupOn ==
    (call.op \in GroupOps /\ ~(call.op = "bus_group" /\ call.typ_group = "BusGroupOn")) =>
        call.bus = << <<6, GroupOpcode(call.typ_group), 0,
                        call.bitflag % 256, call.bitflag \div 256>> >>

-----------------------------------------------------------------------------
(* Properties of the on and off masks.                                     *)

\* bit n of the 16-bit value u
Bit(u, n) == (u \div (2 ^ n)) % 2 = 1

\* C28: for every BusChannelState built by default(), set() or from(u16),
\* on() & off() = 0: no channel has its bit in both masks, and a channel
\* that is Keep has its bit in neither.
C28_MasksDisjoint ==
    chs.stage = 2 =>
        \A n \in Channels :
            /\ ~(Bit(chs.on, n) /\ Bit(chs.off, n))
            /\ chs.st[n] = "Keep" => ~Bit(chs.on, n) /\ ~Bit(chs.off, n)

\* from(0x00F0): channels 4..7 On and the others Off
C28_Witness ==
    /\ chs.op = "from"
    /\ chs.stage = 2
    /\ chs.on = 240
    /\ chs.off = 65295

\* one channel switched off, the others Keep
C28_WitnessKeep ==
    /\ chs.op = "set"
    /\ chs.stage = 2
    /\ chs.typ_group = "BusGroupOff"
    /\ chs.channels = <<1>>
    /\ chs.on = 0
    /\ chs.off = 2

\* default(): both masks empty
C28_WitnessDefault ==
    /\ chs.op = "default"
    /\ chs.stage = 2
    /\ chs.on = 0
    /\ chs.off = 0

\* C29: set(BusGroupState, channels) returns, for every list of valid
\* indices, the state in which every channel is Keep: on() and off() are 0
\* and state() returns an error.
C29_SetStateIsAllKeep ==
    (chs.op = "set" /\ chs.typ_group = "BusGroupState" /\ chs.stage >= 1) =>
        /\ chs.err = "Ok" <=> \A i \in DOMAIN chs.channels : chs.channels[i] \in Channels
        /\ chs.err = "Ok" => chs.st = [n \in Channels |-> "Keep"]
        /\ chs.stage = 2 =>
               /\ chs.on = 0
               /\ chs.off = 0
               /\ chs.state.err = "InvalidBusChannelState"

C29_Witness ==
    /\ chs.op = "set"
    /\ chs.typ_group = "BusGroupState"
    /\ chs.channels = <<0, 15, 7>>
    /\ chs.stage = 2
    /\ chs.on = 0
    /\ chs.off = 0
    /\ chs.state.err = "InvalidBusChannelState"

-----------------------------------------------------------------------------
(* VIPData::from(v): the voltage, current and power of a housekeeping      *)
(* block, decoded from its first six bytes.                                *)

I16_MIN == -32768

I16_MAX == 32767

\* an i16 product that leaves the range: a panic when the build checks
\* overflow (debug), the wrapped two's-complement value when it does not
i16_mul(a, b, overflow_checks) ==
    LET m == a * b
    IN  IF m \in I16_MIN..I16_MAX THEN [panic |-> FALSE, v |-> m]
        ELSE IF overflow_checks THEN [panic |-> TRUE, v |-> 0]
        ELSE [panic |-> FALSE, v |-> ((m - I16_MIN) % 65536) + I16_MIN]

\* From<Vec<u8>> for VIPData
VIPData_from(v, overflow_checks) ==
    LET pwr == i16_mul(10, signed_from_le_bytes(<<At(v, 4), At(v, 5)>>), overflow_checks)
    IN  IF pwr.panic THEN [err |-> "panic", volt |-> 0, curr |-> 0, pwr |-> 0]
        ELSE [err |-> "Ok",
              volt |-> signed_from_le_bytes(<<At(v, 0), At(v, 1)>>),
              curr |-> signed_from_le_bytes(<<At(v, 2), At(v, 3)>>),
              pwr |-> pwr.v]

\* the blocks that are decoded: every raw power, two voltage/current pairs
VipBlocks ==
    {vi \o <<lo, hi>> : vi \in {<<0, 0, 0, 0>>, <<\H34, \H12, \HFE, \HFF>>},
                        lo \in 0..U8_MAX, hi \in 0..U8_MAX}

InitVip ==
    /\ reg = RegIdle
    /\ crcv = CrcIdle
    /\ dev = [a \in DevAddrs |-> <<>>]
    /\ op = "none"
    /\ pc = "idle"
    /\ it = 0
    /\ result = <<>>
    /\ bus = <<>>
    /\ ret = "none"
    /\ lastStat = 0
    /\ ncalls = 0
    /\ nsets = 0
    /\ prev = NoSave
    /\ cur = NoSave
    /\ chs = ChsIdle
    /\ call \in {[op |-> "VIPData_from", stage |-> 0, v |-> v] : v \in VipBlocks}

\* VIPData::from(v) in a build with or without overflow checks
VIPDataFrom(overflow_checks) ==
    /\ call.op = "VIPData_from"
    /\ call.stage = 0
    /\ call' = [op |-> "VIPData_from", stage |-> 1, v |-> call.v,
                out |-> VIPData_from(call.v, overflow_checks)]
    /\ UNCHANGED <<reg, crcv, saveVars, chs>>

NextVip == \E overflow_checks \in BOOLEAN : VIPDataFrom(overflow_checks)

SpecVip == InitVip /\ [][NextVip]_vars

\* the raw power of a block: the signed 16-bit value of its bytes 4 and 5
RawPower(v) ==
    LET u == v[5] + 256 * v[6]
    IN  IF u >= 32768 THEN u - 65536 ELSE u

\* C30: decoding a voltage/current/power block never overflows: for every
\* signed 16-bit raw power r in bytes 4-5 the decoded pwr is 10 * r as a
\* mathematical integer, and it fits in a signed 16-bit integer.
C30_PowerNeverOverflows ==
    (call.op = "VIPData_from" /\ call.stage = 1) =>
        /\ call.out.err = "Ok"
        /\ call.out.pwr = 10 * RawPower(call.v)
        /\ call.out.pwr \in -32768..32767

\* the same of the raw powers whose tenfold is a signed 16-bit value
C30_PowerWithinRange ==
    (call.op = "VIPData_from" /\ call.stage = 1 /\ RawPower(call.v) \in -3276..3276) =>
        /\ call.out.err = "Ok"
        /\ call.out.pwr = 10 * RawPower(call.v)
        /\ call.out.volt \in -32768..32767

====
